---- MODULE Spec2Model ----
(***************************************************************************)
(* A model of the intent-driven function-dispatch layer of NouMeal-be      *)
(* (src/AI.py; src/AI_Bot/AI.py and src/AI_Bot/Bot.py hold the same        *)
(* helpers line for line).                                                 *)
(*                                                                         *)
(* Encoding of Python values                                               *)
(*   dict        a TLA+ record / function on strings; {} is <<>>;          *)
(*               "k in d" is k \in DOMAIN d                                *)
(*   list        a sequence                                                *)
(*   str, int    a string ("2000", "3"); accents are dropped               *)
(*   None        the string "None" where a string is expected,             *)
(*               NoneImage where an image is expected, NoneImages where a  *)
(*               list of images is expected, NoneResult where a dict is    *)
(*   float       an integer number of fixed units, named at each use       *)
(*   an image    the sequence of its comma-separated segments, each        *)
(*               segment named by what base64.b64decode makes of it        *)
(*   a raise     a function that may raise returns a record whose field    *)
(*               raised tells whether it raised; message is str(e)         *)
(* Every function that calls an external service also returns the list of  *)
(* adapter calls it made (field calls).                                    *)
(***************************************************************************)
EXTENDS Integers, Sequences, FiniteSets, TLC

VARIABLES
    conversations,   \* src/AI.py:33  session id -> list of turns
    user_profiles,   \* src/AI.py:34  user id -> profile
    op,              \* the call or request being handled, with its inputs
    ret,             \* what it returned (Pending before it ran)
    calls,           \* the adapter calls it made, in order
    memo,            \* history: an earlier execute_function call, its result, the size of the stores then
    threads,         \* requests handled concurrently: each one's position and locals
    heap             \* the list objects those requests refer to: reference -> turns

vars == <<conversations, user_profiles, op, ret, calls, memo, threads, heap>>

(***************************************************************************)
(* Bounds of the model                                                     *)
(***************************************************************************)
MaxConcepts == 3
MaxTokens == 3
MaxTurns == 2
MaxChatTurns == 12
MaxSessionTurns == 4

(***************************************************************************)
(* Python helpers                                                          *)
(***************************************************************************)
EmptyDict == <<>>
None == "None"
NoneImage == <<"<None>">>
NoneImages == <<NoneImage>>
NoneResult == [none |-> TRUE]
Pending == [pending |-> TRUE]
NoMemo == [none |-> TRUE]

\* d.get(k, default)
Get(d, k, default) == IF k \in DOMAIN d THEN d[k] ELSE default

\* d[k] = v on a dict
Put(d, k, v) == [x \in DOMAIN d \cup {k} |-> IF x = k THEN v ELSE d[x]]

SeqUpTo(S, n) == UNION {[1..k -> S] : k \in 0..n}

Range(s) == {s[i] : i \in DOMAIN s}

(***************************************************************************)
(* Recognition Adapter: recognize_food_with_clarifai (src/AI.py:166-219)   *)
(***************************************************************************)
\* concept.value is a float in [0,1], counted here in units of 0.00001;
\* 0.5 is 50000 (src/AI.py:202)
ConfidenceThreshold == 50000

\* round(concept.value * 100, 2) (src/AI.py:205), in units of 0.01 percent.
\* The values of the model never end in 5, so no tie is rounded.
RoundConfidence(value) == (value + 5) \div 10

\* base64.b64decode raises binascii.Error on these segments (src/AI.py:171)
Undecodable == {"bad-padding"}

\* if ',' in image_base64: image_base64 = image_base64.split(',')[1]
\* (src/AI.py:168-169)
StripPrefix(image_base64) ==
    IF Len(image_base64) > 1 THEN image_base64[2] ELSE image_base64[1]

\* a variant that also keeps a confidence of exactly 0.5
RECURSIVE ConceptsAtOrAbove(_)
ConceptsAtOrAbove(concepts) ==
    IF concepts = <<>> THEN <<>>
    ELSE (IF Head(concepts).value >= ConfidenceThreshold
          THEN <<[name |-> Head(concepts).name,
                  confidence |-> RoundConfidence(Head(concepts).value)]>>
          ELSE <<>>) \o ConceptsAtOrAbove(Tail(concepts))

\* the inner loop of src/AI.py:201-206 over one output's concepts
RECURSIVE ConceptsAbove(_)
ConceptsAbove(concepts) ==
    IF concepts = <<>> THEN <<>>
    ELSE (IF Head(concepts).value > ConfidenceThreshold
          THEN <<[name |-> Head(concepts).name,
                  confidence |-> RoundConfidence(Head(concepts).value)]>>
          ELSE <<>>) \o ConceptsAbove(Tail(concepts))

\* the outer loop of src/AI.py:199-206 over the outputs of the workflow
RECURSIVE DetectedFoods(_)
DetectedFoods(outputs) ==
    IF outputs = <<>> THEN <<>>
    ELSE ConceptsAbove(Head(outputs)) \o DetectedFoods(Tail(outputs))

\* a variant that keeps the last entry of every name, where the first stood
RECURSIVE UniqueFoodsKeepLast(_, _)
UniqueFoodsKeepLast(detected_foods, seen) ==
    IF detected_foods = <<>> THEN <<>>
    ELSE IF Head(detected_foods).name \in seen
         THEN UniqueFoodsKeepLast(Tail(detected_foods), seen)
         ELSE LET same == SelectSeq(detected_foods,
                              LAMBDA f : f.name = Head(detected_foods).name)
              IN  <<same[Len(same)]>>
                  \o UniqueFoodsKeepLast(Tail(detected_foods),
                                         seen \cup {Head(detected_foods).name})

\* the loop of src/AI.py:208-213: keep the first entry of every name
RECURSIVE UniqueFoods(_, _)
UniqueFoods(detected_foods, seen) ==
    IF detected_foods = <<>> THEN <<>>
    ELSE IF Head(detected_foods).name \in seen
         THEN UniqueFoods(Tail(detected_foods), seen)
         ELSE <<Head(detected_foods)>>
              \o UniqueFoods(Tail(detected_foods),
                             seen \cup {Head(detected_foods).name})

\* a variant that reads the results without looking at the status
RecognizeTryAnyStatus(image_base64, clarifai) ==
    IF image_base64 = NoneImage
    THEN [raised |-> TRUE, message |-> "TypeError"]
    ELSE IF StripPrefix(image_base64) \in Undecodable
    THEN [raised |-> TRUE, message |-> "binascii.Error"]
    ELSE LET response == clarifai[StripPrefix(image_base64)] IN
         IF response.raises
         THEN [raised |-> TRUE, message |-> "RpcError"]
         ELSE IF response.results = <<>>
         THEN [raised |-> TRUE, message |-> "IndexError"]
         ELSE [raised |-> FALSE,
               list |-> UniqueFoods(DetectedFoods(response.results[1].outputs), {})]

\* the try block, src/AI.py:168-215. clarifai maps the decoded image to what
\* stub.PostWorkflowResults does with it: [raises, status, results].
RecognizeTry(image_base64, clarifai) ==
    IF image_base64 = NoneImage
    THEN [raised |-> TRUE, message |-> "TypeError"]
    ELSE IF StripPrefix(image_base64) \in Undecodable
    THEN [raised |-> TRUE, message |-> "binascii.Error"]
    ELSE LET response == clarifai[StripPrefix(image_base64)] IN
         IF response.raises
         THEN [raised |-> TRUE, message |-> "RpcError"]
         ELSE IF response.status # "SUCCESS"
         THEN [raised |-> TRUE, message |-> "Clarifai Error"]
         ELSE IF response.results = <<>>
         THEN [raised |-> TRUE, message |-> "IndexError"]
         ELSE [raised |-> FALSE,
               list |-> UniqueFoods(DetectedFoods(response.results[1].outputs), {})]

\* except Exception: return [] (src/AI.py:217-219)
RecognizeCatchAll(outcome) ==
    IF outcome.raised THEN [raised |-> FALSE, list |-> <<>>] ELSE outcome

recognize_food_with_clarifai(image_base64, clarifai) ==
    RecognizeCatchAll(RecognizeTry(image_base64, clarifai))

(***************************************************************************)
(* Generation Adapter: call_openai_vision, call_openai_text                *)
(* (src/AI.py:222-263). openai maps the prompt template of a call to what  *)
(* client.chat.completions.create does with it: [raises, content].         *)
(***************************************************************************)
RecognizeCall(image) == [adapter |-> "recognize_food_with_clarifai", image |-> image]
GenerationCall(adapter, template, args) ==
    [adapter |-> adapter, template |-> template, args |-> args]

\* the try block of either adapter: the request, then
\* response.choices[0].message.content.strip()
CompletionTry(response) ==
    IF response.raises THEN [raised |-> TRUE, message |-> "APIError"]
    ELSE IF response.content = None
    THEN [raised |-> TRUE, message |-> "AttributeError"]
    ELSE [raised |-> FALSE, text |-> response.content]

\* src/AI.py:222-247; the loop over images raises on an image that is None
call_openai_vision(template, args, images, openai) ==
    LET outcome ==
            IF images = NoneImages \/ NoneImage \in Range(images)
            THEN [raised |-> TRUE, message |-> "TypeError"]
            ELSE CompletionTry(openai[template])
    IN  IF outcome.raised
        THEN [raised |-> TRUE, message |-> "OpenAI Vision Error",
              calls |-> <<GenerationCall("call_openai_vision", template, args)>>]
        ELSE [raised |-> FALSE, text |-> outcome.text,
              calls |-> <<GenerationCall("call_openai_vision", template, args)>>]

\* src/AI.py:250-263
call_openai_text(template, args, openai) ==
    LET outcome == CompletionTry(openai[template])
    IN  IF outcome.raised
        THEN [raised |-> TRUE, message |-> "OpenAI API error",
              calls |-> <<GenerationCall("call_openai_text", template, args)>>]
        ELSE [raised |-> FALSE, text |-> outcome.text,
              calls |-> <<GenerationCall("call_openai_text", template, args)>>]

(***************************************************************************)
(* The capability operations (src/AI.py:374-505). Each returns             *)
(* [raised, value | message, calls].                                       *)
(***************************************************************************)
NotRecognized == [error |-> "Khong nhan dien duoc mon an"]

\* a variant without the early return: it asks for an analysis of nothing
internal_analyze_food_unguarded(image, health_condition, dietary_goals, env) ==
    LET detected_foods == recognize_food_with_clarifai(image, env.clarifai).list
        args == [health_condition |-> health_condition,
                 dietary_goals |-> dietary_goals, food_list |-> detected_foods]
        analysis == call_openai_vision("analyze_food", args, <<image>>, env.openai)
    IN  IF analysis.raised
        THEN [raised |-> TRUE, message |-> analysis.message,
              calls |-> <<RecognizeCall(image)>> \o analysis.calls]
        ELSE [raised |-> FALSE,
              value |-> [detected_foods |-> detected_foods,
                         analysis |-> analysis.text,
                         health_condition |-> health_condition,
                         dietary_goals |-> dietary_goals],
              calls |-> <<RecognizeCall(image)>> \o analysis.calls]

\* src/AI.py:374-398
internal_analyze_food(image, health_condition, dietary_goals, env) ==
    LET detected_foods == recognize_food_with_clarifai(image, env.clarifai).list
        args == [health_condition |-> health_condition,
                 dietary_goals |-> dietary_goals, food_list |-> detected_foods]
        analysis == call_openai_vision("analyze_food", args, <<image>>, env.openai)
    IN  IF detected_foods = <<>>
        THEN [raised |-> FALSE, value |-> NotRecognized,
              calls |-> <<RecognizeCall(image)>>]
        ELSE IF analysis.raised
        THEN [raised |-> TRUE, message |-> analysis.message,
              calls |-> <<RecognizeCall(image)>> \o analysis.calls]
        ELSE [raised |-> FALSE,
              value |-> [detected_foods |-> detected_foods,
                         analysis |-> analysis.text,
                         health_condition |-> health_condition,
                         dietary_goals |-> dietary_goals],
              calls |-> <<RecognizeCall(image)>> \o analysis.calls]

\* the loops of src/AI.py:403-405 and 433-436: one recognition per image
RecognizeEach(images, clarifai) ==
    [i \in DOMAIN images |-> recognize_food_with_clarifai(images[i], clarifai).list]
RecognizeCalls(images) == [i \in DOMAIN images |-> RecognizeCall(images[i])]

\* src/AI.py:401-426; enumerate(None) raises
internal_compare_foods(images, health_condition, env) ==
    IF images = NoneImages
    THEN [raised |-> TRUE, message |-> "TypeError", calls |-> <<>>]
    ELSE
    LET foods == RecognizeEach(images, env.clarifai)
        all_detected == [i \in DOMAIN images |-> [dish_number |-> i, foods |-> foods[i]]]
        args == [health_condition |-> health_condition, dishes |-> all_detected]
        comparison == call_openai_vision("compare_foods", args, images, env.openai)
    IN  IF comparison.raised
        THEN [raised |-> TRUE, message |-> comparison.message,
              calls |-> RecognizeCalls(images) \o comparison.calls]
        ELSE [raised |-> FALSE,
              value |-> [detected_foods |-> all_detected,
                         comparison |-> comparison.text,
                         total_foods |-> Len(images)],
              calls |-> RecognizeCalls(images) \o comparison.calls]

\* meal_names, src/AI.py:431-434
MealName(idx) ==
    IF idx <= 4 THEN <<"Bua Sang", "Bua Trua", "Bua Toi", "Bua Phu">>[idx]
    ELSE "Bua Bua n"

\* src/AI.py:429-459
internal_track_calories(images, target_calories, health_condition, env) ==
    IF images = NoneImages
    THEN [raised |-> TRUE, message |-> "TypeError", calls |-> <<>>]
    ELSE
    LET foods == RecognizeEach(images, env.clarifai)
        daily_meals == [i \in DOMAIN images |-> [meal_name |-> MealName(i), foods |-> foods[i]]]
        args == [health_condition |-> health_condition,
                 target_calories |-> target_calories, meals |-> daily_meals]
        tracking == call_openai_vision("track_calories", args, images, env.openai)
    IN  IF tracking.raised
        THEN [raised |-> TRUE, message |-> tracking.message,
              calls |-> RecognizeCalls(images) \o tracking.calls]
        ELSE [raised |-> FALSE,
              value |-> [daily_meals |-> daily_meals,
                         tracking |-> tracking.text,
                         target_calories |-> target_calories],
              calls |-> RecognizeCalls(images) \o tracking.calls]

\* src/AI.py:462-467
internal_quick_scan(image, env) ==
    LET detected_foods == recognize_food_with_clarifai(image, env.clarifai).list
    IN  [raised |-> FALSE,
         value |-> IF detected_foods = <<>> THEN NotRecognized
                   ELSE [detected_foods |-> detected_foods,
                         total |-> Len(detected_foods)],
         calls |-> <<RecognizeCall(image)>>]

\* src/AI.py:470-480
internal_meal_suggestion(meal_time, health_condition, dietary_preferences, budget_range, cooking_time, env) ==
    LET args == [meal_time |-> meal_time, health_condition |-> health_condition,
                 dietary_preferences |-> dietary_preferences,
                 budget_range |-> budget_range, cooking_time |-> cooking_time]
        result == call_openai_text("meal_suggestion", args, env.openai)
    IN  IF result.raised
        THEN [raised |-> TRUE, message |-> result.message, calls |-> result.calls]
        ELSE [raised |-> FALSE,
              value |-> [suggestion |-> result.text, meal_time |-> meal_time],
              calls |-> result.calls]

\* src/AI.py:483-493
internal_weekly_menu(health_condition, dietary_preferences, budget_range, cooking_time, env) ==
    LET args == [health_condition |-> health_condition,
                 dietary_preferences |-> dietary_preferences,
                 budget_range |-> budget_range, cooking_time |-> cooking_time]
        result == call_openai_text("weekly_menu", args, env.openai)
    IN  IF result.raised
        THEN [raised |-> TRUE, message |-> result.message, calls |-> result.calls]
        ELSE [raised |-> FALSE,
              value |-> [menu |-> result.text, duration |-> "7 ngay"],
              calls |-> result.calls]

\* src/AI.py:496-505
internal_detailed_recipes(days, health_condition, dietary_preferences, budget_range, env) ==
    LET args == [days |-> days, health_condition |-> health_condition,
                 dietary_preferences |-> dietary_preferences,
                 budget_range |-> budget_range]
        result == call_openai_text("detailed_recipes", args, env.openai)
    IN  IF result.raised
        THEN [raised |-> TRUE, message |-> result.message, calls |-> result.calls]
        ELSE [raised |-> FALSE,
              value |-> [recipes |-> result.text, days |-> days],
              calls |-> result.calls]

(***************************************************************************)
(* Capability Registry: AVAILABLE_FUNCTIONS (src/AI.py:73-163). For each   *)
(* capability: its properties, the defaults they declare, the required.    *)
(***************************************************************************)
AVAILABLE_FUNCTIONS == <<
    [name |-> "analyze_food",
     properties |-> {"image", "health_condition", "dietary_goals"},
     default |-> [health_condition |-> "khoe manh",
                  dietary_goals |-> "duy tri can nang"],
     required |-> {"image"}],
    [name |-> "compare_foods",
     properties |-> {"images", "health_condition"},
     default |-> [health_condition |-> "khoe manh"],
     required |-> {"images"}],
    [name |-> "track_calories",
     properties |-> {"images", "target_calories", "health_condition"},
     default |-> [target_calories |-> "2000", health_condition |-> "khoe manh"],
     required |-> {"images"}],
    [name |-> "quick_scan",
     properties |-> {"image"},
     default |-> EmptyDict,
     required |-> {"image"}],
    [name |-> "meal_suggestion",
     properties |-> {"meal_time", "health_condition", "dietary_preferences",
                     "budget_range", "cooking_time"},
     default |-> [meal_time |-> "trua", health_condition |-> "khoe manh",
                  dietary_preferences |-> "khong", budget_range |-> "100k",
                  cooking_time |-> "30 phut"],
     required |-> {}],
    [name |-> "weekly_menu",
     properties |-> {"health_condition", "dietary_preferences", "budget_range",
                     "cooking_time"},
     default |-> [health_condition |-> "khoe manh",
                  dietary_preferences |-> "khong", budget_range |-> "500k",
                  cooking_time |-> "45 phut"],
     required |-> {}],
    [name |-> "detailed_recipes",
     properties |-> {"days", "health_condition", "dietary_preferences",
                     "budget_range"},
     default |-> [days |-> "3", health_condition |-> "khoe manh",
                  dietary_preferences |-> "khong", budget_range |-> "500k"],
     required |-> {}]
>>

(***************************************************************************)
(* Dispatcher: execute_function (src/AI.py:328-371)                        *)
(***************************************************************************)
\* a parameter bag that is not a mapping has no .get
NotADict == [not_a_dict |-> TRUE]
IsDict(params) == "not_a_dict" \notin DOMAIN params

\* the names of the if/elif chain, src/AI.py:330-361
DispatchedNames == {"analyze_food", "compare_foods", "track_calories",
                    "quick_scan", "meal_suggestion", "weekly_menu",
                    "detailed_recipes"}

\* a variant in which weekly_menu was copied from meal_suggestion with its
\* budget and cooking time
BranchDefaultsCopied(function_name) ==
    CASE function_name = "analyze_food" ->
            [image |-> NoneImage, health_condition |-> "khoe manh",
             dietary_goals |-> "duy tri can nang"]
      [] function_name = "compare_foods" ->
            [images |-> NoneImages, health_condition |-> "khoe manh"]
      [] function_name = "track_calories" ->
            [images |-> NoneImages, target_calories |-> "2000",
             health_condition |-> "khoe manh"]
      [] function_name = "quick_scan" -> [image |-> NoneImage]
      [] function_name = "meal_suggestion" ->
            [meal_time |-> "trua", health_condition |-> "khoe manh",
             dietary_preferences |-> "khong", budget_range |-> "100k",
             cooking_time |-> "30 phut"]
      [] function_name = "weekly_menu" ->
            [health_condition |-> "khoe manh", dietary_preferences |-> "khong",
             budget_range |-> "100k", cooking_time |-> "30 phut"]
      [] function_name = "detailed_recipes" ->
            [days |-> "3", health_condition |-> "khoe manh",
             dietary_preferences |-> "khong", budget_range |-> "500k"]

\* the parameters each branch reads and the second argument of its
\* params.get (None where it gives none), src/AI.py:330-367
BranchDefaults(function_name) ==
    CASE function_name = "analyze_food" ->
            [image |-> NoneImage, health_condition |-> "khoe manh",
             dietary_goals |-> "duy tri can nang"]
      [] function_name = "compare_foods" ->
            [images |-> NoneImages, health_condition |-> "khoe manh"]
      [] function_name = "track_calories" ->
            [images |-> NoneImages, target_calories |-> "2000",
             health_condition |-> "khoe manh"]
      [] function_name = "quick_scan" -> [image |-> NoneImage]
      [] function_name = "meal_suggestion" ->
            [meal_time |-> "trua", health_condition |-> "khoe manh",
             dietary_preferences |-> "khong", budget_range |-> "100k",
             cooking_time |-> "30 phut"]
      [] function_name = "weekly_menu" ->
            [health_condition |-> "khoe manh", dietary_preferences |-> "khong",
             budget_range |-> "500k", cooking_time |-> "45 phut"]
      [] function_name = "detailed_recipes" ->
            [days |-> "3", health_condition |-> "khoe manh",
             dietary_preferences |-> "khong", budget_range |-> "500k"]

\* a variant that fills a missing health_condition from the stored profile
\* of the bag's user_id
ArgumentsFromProfile(function_name, params) ==
    LET user_id == Get(params, "user_id", None)
        stored == IF user_id \in DOMAIN user_profiles
                  THEN [health_condition |-> user_profiles[user_id].health_condition]
                  ELSE EmptyDict
    IN  [k \in DOMAIN BranchDefaults(function_name) |->
            Get(params, k, Get(stored, k, BranchDefaults(function_name)[k]))]

\* the arguments each branch builds with params.get(name[, default])
Arguments(function_name, params) ==
    [k \in DOMAIN BranchDefaults(function_name) |->
        Get(params, k, BranchDefaults(function_name)[k])]

\* the operation each branch calls, on the arguments it built
Invoke(function_name, a, env) ==
    CASE function_name = "analyze_food" ->
            internal_analyze_food(a.image, a.health_condition, a.dietary_goals, env)
      [] function_name = "compare_foods" ->
            internal_compare_foods(a.images, a.health_condition, env)
      [] function_name = "track_calories" ->
            internal_track_calories(a.images, a.target_calories, a.health_condition, env)
      [] function_name = "quick_scan" ->
            internal_quick_scan(a.image, env)
      [] function_name = "meal_suggestion" ->
            internal_meal_suggestion(a.meal_time, a.health_condition,
                                     a.dietary_preferences, a.budget_range,
                                     a.cooking_time, env)
      [] function_name = "weekly_menu" ->
            internal_weekly_menu(a.health_condition, a.dietary_preferences,
                                 a.budget_range, a.cooking_time, env)
      [] function_name = "detailed_recipes" ->
            internal_detailed_recipes(a.days, a.health_condition,
                                      a.dietary_preferences, a.budget_range, env)

\* the operation a branch called and the arguments it gave it
Invocation(function_name, a) == <<[operation |-> function_name, args |-> a]>>

\* a variant whose last branch is a catch-all that suggests a meal
ExecuteTryCatchAllBranch(function_name, params, env) ==
    IF ~IsDict(params)
    THEN [raised |-> TRUE, message |-> "AttributeError", calls |-> <<>>,
          invoked |-> <<>>]
    ELSE LET name == IF function_name \in DispatchedNames THEN function_name
                     ELSE "meal_suggestion"
         IN  [invoked |-> Invocation(name, Arguments(name, params))]
             @@ Invoke(name, Arguments(name, params), env)

\* the try block, src/AI.py:330-369
ExecuteTry(function_name, params, env) ==
    IF function_name \notin DispatchedNames
    THEN [raised |-> FALSE,
          value |-> [error |-> "Function <function_name> khong ton tai"],
          calls |-> <<>>, invoked |-> <<>>]
    ELSE IF ~IsDict(params)
    THEN [raised |-> TRUE, message |-> "AttributeError", calls |-> <<>>,
          invoked |-> <<>>]
    ELSE [invoked |-> Invocation(function_name, Arguments(function_name, params))]
         @@ Invoke(function_name, Arguments(function_name, params), env)

\* a variant that catches only the error of a bag that is no mapping
ExecuteCatchAttributeError(outcome) ==
    IF outcome.raised /\ outcome.message = "AttributeError"
    THEN [raised |-> FALSE, value |-> [error |-> outcome.message],
          calls |-> outcome.calls, invoked |-> outcome.invoked]
    ELSE outcome

\* except Exception as e: return {"error": str(e)} (src/AI.py:370-371)
ExecuteCatch(outcome) ==
    IF outcome.raised
    THEN [raised |-> FALSE, value |-> [error |-> outcome.message],
          calls |-> outcome.calls, invoked |-> outcome.invoked]
    ELSE outcome

\* src/AI.py:328-371; params is the bag as the call leaves it: no statement
\* of the function or of the operations assigns into it
execute_function(function_name, params, env) ==
    [params |-> params] @@ ExecuteCatch(ExecuteTry(function_name, params, env))

(***************************************************************************)
(* Intent Classifier: analyze_user_intent (src/AI.py:266-325). The text    *)
(* the model returns is a sequence of tokens: "fence_json" is ```json,     *)
(* "fence" is a ``` not followed by json, "json" is one JSON value (field  *)
(* v), "prose" is text that is no JSON value.                              *)
(***************************************************************************)
NoneText == <<[t |-> "None"]>>

HasToken(text, kinds) == \E i \in DOMAIN text : text[i].t \in kinds

\* str.split(sep): the parts of text between the tokens of the kinds seps
RECURSIVE Split(_, _)
Split(text, seps) ==
    IF ~HasToken(text, seps) THEN <<text>>
    ELSE LET k == CHOOSE i \in DOMAIN text :
                      /\ text[i].t \in seps
                      /\ \A j \in 1..(i - 1) : text[j].t \notin seps
         IN  <<SubSeq(text, 1, k - 1)>> \o Split(SubSeq(text, k + 1, Len(text)), seps)

\* src/AI.py:307-310. "```" is found in ```json too.
ExtractFenced(result_text) ==
    IF HasToken(result_text, {"fence_json"})
    THEN Split(Split(result_text, {"fence_json"})[2], {"fence", "fence_json"})[1]
    ELSE IF HasToken(result_text, {"fence", "fence_json"})
    THEN Split(Split(result_text, {"fence", "fence_json"})[2], {"fence", "fence_json"})[1]
    ELSE result_text

\* json.loads (src/AI.py:312): a value only if the text is one JSON value
JsonLoads(result_text) ==
    IF Len(result_text) = 1 /\ result_text[1].t = "json"
    THEN [raised |-> FALSE, decision |-> result_text[1].v]
    ELSE [raised |-> TRUE, message |-> "JSONDecodeError"]

\* the try block, src/AI.py:268-313
IntentTry(response) ==
    IF response.raises THEN [raised |-> TRUE, message |-> "APIError"]
    ELSE IF response.content = NoneText
    THEN [raised |-> TRUE, message |-> "AttributeError"]
    ELSE JsonLoads(ExtractFenced(response.content))

\* confidence is counted in hundredths: 50 is 0.5 (src/AI.py:317-325)
FallbackDecision ==
    [intent |-> "chat",
     confidence |-> 50,
     suggested_params |-> EmptyDict,
     explanation |-> "Khong the phan tich y dinh, chuyen sang chat thong thuong",
     alternative_actions |-> <<>>,
     missing_info |-> <<>>,
     next_suggestions |-> <<>>]

\* a variant that catches only the JSON decoding error
IntentCatchDecodeOnly(outcome) ==
    IF outcome.raised /\ outcome.message = "JSONDecodeError"
    THEN [raised |-> FALSE, decision |-> FallbackDecision]
    ELSE outcome

\* except Exception: return the fallback (src/AI.py:315-325)
IntentCatch(outcome) ==
    IF outcome.raised THEN [raised |-> FALSE, decision |-> FallbackDecision]
    ELSE outcome

analyze_user_intent(response) == IntentCatch(IntentTry(response))

(***************************************************************************)
(* The single-capability routes that only wrap an operation                *)
(* (src/AI.py:1265-1276, 1508-1518). A response is [status, body].         *)
(***************************************************************************)
\* the except of a route: return jsonify({"error": str(e)}), 500
ServerError(message) == [status |-> 500, body |-> [error |-> message]]

\* if "error" in result: 400, else 200 with {"success": True, **result}
WrapResult(outcome) ==
    IF outcome.raised THEN ServerError(outcome.message)
    ELSE IF "error" \in DOMAIN outcome.value
    THEN [status |-> 400, body |-> outcome.value]
    ELSE [status |-> 200, body |-> Put(outcome.value, "success", TRUE)]

\* /api/quick-scan, src/AI.py:1508-1518
quick_scan(data, env) ==
    IF ~IsDict(data) THEN ServerError("AttributeError")
    ELSE WrapResult(internal_quick_scan(Get(data, "image", NoneImage), env))

\* /api/analyze-food, src/AI.py:1263-1276
analyze_food(data, env) ==
    IF ~IsDict(data) THEN ServerError("AttributeError")
    ELSE WrapResult(internal_analyze_food(
             Get(data, "image", NoneImage),
             Get(data, "health_condition", "khoe manh"),
             Get(data, "dietary_goals", "duy tri can nang"), env))

(***************************************************************************)
(* Inputs of the model                                                     *)
(***************************************************************************)
ImgA == <<"b64:A">>
ImgB == <<"b64:B">>
ImgAPrefixed == <<"data:image/jpeg;base64", "b64:A">>
ImgBad == <<"bad-padding">>
ImgBadPrefixed == <<"data:image/jpeg;base64", "bad-padding">>
Bytes == {"b64:A", "b64:B"}

Labels == {"pho", "com"}
\* 0.12003, 0.5, 0.50004, 0.90006
Values == {12003, 50000, 50004, 90006}
Concepts == [name : Labels, value : Values]

\* what stub.PostWorkflowResults can do
TransportError == [raises |-> TRUE, status |-> "none", results |-> <<>>]
StatusFailure == [raises |-> FALSE, status |-> "FAILURE", results |-> <<>>]
NoResults == [raises |-> FALSE, status |-> "SUCCESS", results |-> <<>>]
Success(outputs) ==
    [raises |-> FALSE, status |-> "SUCCESS", results |-> <<[outputs |-> outputs]>>]

\* the workflow's outputs: a list of concepts cut in two outputs
OutputsOf(flat, cut) == <<SubSeq(flat, 1, cut), SubSeq(flat, cut + 1, Len(flat))>>
AllOutputs(n) ==
    {OutputsOf(flat, cut) : <<flat, cut>> \in
        {fc \in SeqUpTo(Concepts, n) \X (0..n) : fc[2] <= Len(fc[1])}}

NothingRecognized == Success(<<<<>>, <<>>>>)
PhoRecognized == Success(<<<<[name |-> "pho", value |-> 90006]>>, <<>>>>)
\* a status that is not SUCCESS beside results that were computed
PartialFailure ==
    [raises |-> FALSE, status |-> "FAILURE", results |-> PhoRecognized.results]
ServiceFailures == {TransportError, StatusFailure, PartialFailure, NoResults}

\* what client.chat.completions.create can do
OpenAIRaises == [raises |-> TRUE, content |-> None]
OpenAINoContent == [raises |-> FALSE, content |-> None]
OpenAIText == [raises |-> FALSE, content |-> "generated text"]
Templates == {"analyze_food", "compare_foods", "track_calories",
              "meal_suggestion", "weekly_menu", "detailed_recipes", "chat"}
Always(outcome) == [t \in Templates |-> outcome]
Everywhere(response) == [b \in Bytes |-> response]

(***************************************************************************)
(* SpecRecognition: the Recognition Adapter and the two routes that return *)
(* what it recognized, each applied once to an input drawn by Init.        *)
(***************************************************************************)
RecognitionOps ==
    [kind : {"recognize"},
     image : {ImgA, ImgAPrefixed, ImgBad, NoneImage},
     response : ServiceFailures \cup {Success(o) : o \in AllOutputs(MaxConcepts)},
     openai : {OpenAIText}]
    \cup
    [kind : {"quick_scan", "analyze_food"},
     image : {ImgA, ImgAPrefixed, ImgBad, ImgBadPrefixed, NoneImage},
     response : ServiceFailures \cup {Success(o) : o \in AllOutputs(1)},
     openai : {OpenAIText, OpenAIRaises}]

EnvOf(o) == [clarifai |-> Everywhere(o.response), openai |-> Always(o.openai)]

\* the body of a request that names o.image (none when the image is absent)
ImageBody(o) == IF o.image = NoneImage THEN EmptyDict ELSE [image |-> o.image]

InitRecognition ==
    /\ conversations = EmptyDict
    /\ user_profiles = EmptyDict
    /\ op \in RecognitionOps
    /\ ret = Pending
    /\ calls = <<>>
    /\ memo = NoMemo
    /\ threads = <<>>
    /\ heap = <<>>

Recognize ==
    /\ ret = Pending
    /\ op.kind = "recognize"
    /\ ret' = recognize_food_with_clarifai(op.image, EnvOf(op).clarifai)
    /\ calls' = <<RecognizeCall(op.image)>>
    /\ UNCHANGED <<conversations, user_profiles, op, memo, threads, heap>>

QuickScan ==
    /\ ret = Pending
    /\ op.kind = "quick_scan"
    /\ ret' = quick_scan(ImageBody(op), EnvOf(op))
    /\ calls' = internal_quick_scan(Get(ImageBody(op), "image", NoneImage), EnvOf(op)).calls
    /\ UNCHANGED <<conversations, user_profiles, op, memo, threads, heap>>

AnalyzeFood ==
    /\ ret = Pending
    /\ op.kind = "analyze_food"
    /\ ret' = analyze_food(ImageBody(op), EnvOf(op))
    /\ calls' = internal_analyze_food(Get(ImageBody(op), "image", NoneImage),
                                      "khoe manh", "duy tri can nang", EnvOf(op)).calls
    /\ UNCHANGED <<conversations, user_profiles, op, memo, threads, heap>>

NextRecognition == Recognize \/ QuickScan \/ AnalyzeFood

SpecRecognition == InitRecognition /\ [][NextRecognition]_vars

(***************************************************************************)
(* Properties of the Recognition Adapter                                   *)
(***************************************************************************)
RECURSIVE Flatten(_)
Flatten(outputs) ==
    IF outputs = <<>> THEN <<>> ELSE Head(outputs) \o Flatten(Tail(outputs))

\* the service was reached and answered SUCCESS with a result
Served(o) ==
    /\ o.image # NoneImage
    /\ StripPrefix(o.image) \notin Undecodable
    /\ ~o.response.raises
    /\ o.response.status = "SUCCESS"
    /\ o.response.results # <<>>

\* every concept the service returned, across all outputs, in order
ServedConcepts(o) == Flatten(o.response.results[1].outputs)

\* an occurrence of the label with confidence strictly above 0.5
Above(flat, i, label) == flat[i].name = label /\ flat[i].value > 50000
FirstAbove(flat, label) ==
    CHOOSE i \in DOMAIN flat :
        Above(flat, i, label) /\ \A j \in 1..(i - 1) : ~Above(flat, j, label)

Recognized == op.kind = "recognize" /\ ret # Pending

\* C7: the list returned by recognize_food_with_clarifai holds each label at
\* most once, with the confidence of the label's first occurrence above the
\* threshold, and the labels are ordered by those first occurrences.
C7_DedupFirstSeen ==
    (Recognized /\ Served(op)) =>
        LET flat == ServedConcepts(op)
            out == ret.list
        IN  /\ \A p, q \in DOMAIN out : p # q => out[p].name # out[q].name
            /\ \A p \in DOMAIN out :
                  /\ \E i \in DOMAIN flat : Above(flat, i, out[p].name)
                  /\ out[p].confidence
                       = RoundConfidence(flat[FirstAbove(flat, out[p].name)].value)
            /\ \A p, q \in DOMAIN out :
                  p < q => FirstAbove(flat, out[p].name) < FirstAbove(flat, out[q].name)

\* a label returned twice above the threshold with two confidences, after
\* another label: two labels come back
C7_Witness ==
    /\ Recognized /\ Served(op)
    /\ Len(ret.list) = 2
    /\ \E i, j \in DOMAIN ServedConcepts(op) :
          /\ i < j
          /\ ServedConcepts(op)[i].name = ServedConcepts(op)[j].name
          /\ ServedConcepts(op)[i].value = 50004
          /\ ServedConcepts(op)[j].value = 90006

\* C8: a label is in the output if and only if one of its occurrences has a
\* confidence strictly greater than 0.5.
C8_ThresholdIff ==
    (Recognized /\ Served(op)) =>
        \A label \in Labels :
            (\E p \in DOMAIN ret.list : ret.list[p].name = label)
            <=> (\E i \in DOMAIN ServedConcepts(op) :
                    /\ ServedConcepts(op)[i].name = label
                    /\ ServedConcepts(op)[i].value > 50000)

\* one label only at exactly 0.5 and below, the other just above 0.5
C8_Witness ==
    /\ Recognized /\ Served(op)
    /\ ServedConcepts(op) = <<[name |-> "pho", value |-> 50000],
                              [name |-> "com", value |-> 50004],
                              [name |-> "pho", value |-> 12003]>>
    /\ Len(ret.list) = 1
    /\ ret.list[1].name = "com"

\* C9: when the recognition fails (no image, an undecodable image, a
\* transport error, a status that is not SUCCESS, no result), the adapter
\* returns the empty list without raising, and /api/quick-scan and
\* /api/analyze-food answer exactly as they do for a good image in which the
\* service recognizes nothing.
C9_FailureIsEmpty ==
    (ret # Pending /\ ~Served(op)) =>
        LET nothing == [clarifai |-> Everywhere(NothingRecognized),
                        openai |-> Always(op.openai)]
        IN  CASE op.kind = "recognize" ->
                    ret = [raised |-> FALSE, list |-> <<>>]
              [] op.kind = "quick_scan" ->
                    ret = quick_scan([image |-> ImgA], nothing)
              [] op.kind = "analyze_food" ->
                    ret = analyze_food([image |-> ImgA], nothing)
              [] OTHER -> TRUE

C9_Witness ==
    /\ op.kind = "quick_scan"
    /\ op.response = PartialFailure
    /\ op.image = ImgA
    /\ ret # Pending
    /\ ret.status = 400

(***************************************************************************)
(* SpecClassifier: analyze_user_intent applied once to what the generation *)
(* service does, drawn by Init.                                            *)
(***************************************************************************)
\* decisions the model may write: IntentDecision objects, well formed or
\* not, and a JSON value that is no object
Decision(intent, confidence, params, missing) ==
    [intent |-> intent,
     confidence |-> confidence,
     suggested_params |-> params,
     explanation |-> "explanation",
     alternative_actions |-> <<"quick_scan">>,
     missing_info |-> missing,
     next_suggestions |-> <<"next">>]

MealDecision == Decision("meal_suggestion", 95, [meal_time |-> "toi"], <<>>)
NeedInfoDecision ==
    Decision("analyze_food", 80, EmptyDict, <<"image", "health_condition">>)
\* JSON that is an object without confidence and without the lists
NoConfidenceDecision == [intent |-> "meal_suggestion", explanation |-> "explanation"]

Fence == [t |-> "fence"]
FenceJson == [t |-> "fence_json"]
Prose == [t |-> "prose"]
Json(v) == [t |-> "json", v |-> v]

ClassifierTokens ==
    {Fence, FenceJson, Prose}
    \cup {Json(v) : v \in {MealDecision, NeedInfoDecision, NoConfidenceDecision, NotADict}}

ClassifierResponses ==
    {[raises |-> TRUE, content |-> NoneText], [raises |-> FALSE, content |-> NoneText]}
    \cup {[raises |-> FALSE, content |-> text] : text \in SeqUpTo(ClassifierTokens, MaxTokens)}

InitClassifier ==
    /\ conversations = EmptyDict
    /\ user_profiles = EmptyDict
    /\ op \in [kind : {"analyze_user_intent"}, response : ClassifierResponses]
    /\ ret = Pending
    /\ calls = <<>>
    /\ memo = NoMemo
    /\ threads = <<>>
    /\ heap = <<>>

AnalyzeIntent ==
    /\ ret = Pending
    /\ op.kind = "analyze_user_intent"
    /\ ret' = analyze_user_intent(op.response)
    /\ calls' = <<[adapter |-> "analyze_user_intent"]>>
    /\ UNCHANGED <<conversations, user_profiles, op, memo, threads, heap>>

NextClassifier == AnalyzeIntent

SpecClassifier == InitClassifier /\ [][NextClassifier]_vars

\* the text is no JSON value, bare or behind a code fence: it is not one
\* JSON value, and no fence in it is directly followed by a JSON value
NotJsonText(text) ==
    /\ ~(Len(text) = 1 /\ text[1].t = "json")
    /\ \A i \in 1..(Len(text) - 1) :
          ~(text[i].t \in {"fence", "fence_json"} /\ text[i + 1].t = "json")

\* C5: when the generation call fails or returns text that is not JSON (with
\* or without a code fence), analyze_user_intent raises nothing and returns
\* the fixed fallback: chat, 0.5, empty parameters, missing_info,
\* alternative_actions and next_suggestions.
C5_FallbackOnFailure ==
    (op.kind = "analyze_user_intent" /\ ret # Pending) =>
        /\ ~ret.raised
        /\ (op.response.raises \/ op.response.content = NoneText
              \/ NotJsonText(op.response.content)) =>
              /\ ret.decision.intent = "chat"
              /\ ret.decision.confidence = 50
              /\ ret.decision.suggested_params = <<>>
              /\ ret.decision.missing_info = <<>>
              /\ ret.decision.alternative_actions = <<>>
              /\ ret.decision.next_suggestions = <<>>

\* fenced text that is no JSON, and the fallback came back
C5_Witness ==
    /\ op.kind = "analyze_user_intent"
    /\ ~op.response.raises
    /\ op.response.content = <<FenceJson, Prose, Fence>>
    /\ ret # Pending
    /\ ret.decision = FallbackDecision

(***************************************************************************)
(* SpecDispatcher: execute_function applied once to a capability name, a   *)
(* parameter bag and the behaviour of the two services, drawn by Init.     *)
(***************************************************************************)
RegisteredNames == {AVAILABLE_FUNCTIONS[i].name : i \in DOMAIN AVAILABLE_FUNCTIONS}
Registry(name) ==
    AVAILABLE_FUNCTIONS[CHOOSE i \in DOMAIN AVAILABLE_FUNCTIONS :
                            AVAILABLE_FUNCTIONS[i].name = name]

\* values a caller may give a parameter (a JSON null for health_condition)
ValuesOf(key) ==
    CASE key = "image" -> {ImgA, ImgBad}
      [] key = "images" -> {<<>>, <<ImgA>>, <<ImgA, ImgB>>}
      [] key = "health_condition" -> {"tieu duong", None}
      [] key = "dietary_goals" -> {"giam can"}
      [] key = "target_calories" -> {"1500"}
      [] key = "meal_time" -> {"toi"}
      [] key = "dietary_preferences" -> {"chay"}
      [] key = "budget_range" -> {"50k"}
      [] key = "cooking_time" -> {"15 phut"}
      [] key = "days" -> {"7"}
      [] key = "message" -> {"an gi bua trua", "   "}
      [] key = "session_id" -> {"s1"}
      [] key = "user_id" -> {"u1", "u9"}
      [] key = "auto_execute" -> {FALSE}
      [] key = "use_agent" -> {TRUE}

\* every bag that gives values to some of the keys
RECURSIVE Bags(_)
Bags(keys) ==
    IF keys = {} THEN {EmptyDict}
    ELSE LET k == CHOOSE x \in keys : TRUE
             rest == Bags(keys \ {k})
         IN  rest \cup {Put(b, k, v) : b \in rest, v \in ValuesOf(k)}

\* names given to the Dispatcher: the registered ones, chat (listed in the
\* system prompt, src/AI.py:38-47) and a name nobody knows
DispatchNames == RegisteredNames \cup {"chat", "make_coffee"}

KeysFor(name) ==
    IF name \in RegisteredNames
    THEN Registry(name).properties \cup {"target_calories"}
    ELSE {"image", "health_condition"}

ClarifaiEnvs == [Bytes -> {TransportError, NothingRecognized, PhoRecognized}]
OpenAIOutcomes == {OpenAIRaises, OpenAINoContent, OpenAIText}

DispatchOps ==
    UNION {[kind : {"execute_function"},
            function_name : {name},
            params : Bags(KeysFor(name)) \cup {NotADict},
            clarifai : ClarifaiEnvs,
            openai : OpenAIOutcomes] : name \in DispatchNames}

DispatchEnv(o) == [clarifai |-> o.clarifai, openai |-> Always(o.openai)]

InitDispatcher ==
    /\ conversations = EmptyDict
    /\ user_profiles = EmptyDict
    /\ op \in DispatchOps
    /\ ret = Pending
    /\ calls = <<>>
    /\ memo = NoMemo
    /\ threads = <<>>
    /\ heap = <<>>

\* ret is what the call made of it: [raised, value | message]
Execute ==
    /\ ret = Pending
    /\ op.kind = "execute_function"
    /\ LET outcome == execute_function(op.function_name, op.params, DispatchEnv(op))
       IN  /\ ret' = IF outcome.raised
                     THEN [raised |-> TRUE, message |-> outcome.message]
                     ELSE [raised |-> FALSE, value |-> outcome.value]
           /\ calls' = outcome.calls \o outcome.invoked
    /\ UNCHANGED <<conversations, user_profiles, op, memo, threads, heap>>

NextDispatcher == Execute

SpecDispatcher == InitDispatcher /\ [][NextDispatcher]_vars

(***************************************************************************)
(* Properties of the Dispatcher                                            *)
(***************************************************************************)
Executed == op.kind = "execute_function" /\ ret # Pending

IsAdapterCall(c) == "adapter" \in DOMAIN c
IsInvocation(c) == "operation" \in DOMAIN c
AdapterCalls == SelectSeq(calls, IsAdapterCall)
Invocations == SelectSeq(calls, IsInvocation)
GenerationCalled ==
    \E i \in DOMAIN AdapterCalls :
        AdapterCalls[i].adapter \in {"call_openai_vision", "call_openai_text"}

IsErrorValue(r) == ~r.raised /\ DOMAIN r.value = {"error"}

\* C1: execute_function returns a value and never raises, whatever the name
\* and the bag; a failing generation call, a missing image or list of
\* images, and a bag that is not a mapping each give an {error: message}.
C1_NeverRaises ==
    Executed =>
        /\ ~ret.raised
        /\ (GenerationCalled /\ op.openai # OpenAIText) => IsErrorValue(ret)
        /\ (op.function_name \in {"analyze_food", "quick_scan"}
              /\ "image" \notin DOMAIN op.params) => IsErrorValue(ret)
        /\ (op.function_name \in {"compare_foods", "track_calories"}
              /\ "images" \notin DOMAIN op.params) => IsErrorValue(ret)
        /\ (op.function_name \in RegisteredNames /\ ~IsDict(op.params))
              => IsErrorValue(ret)

\* the generation call of a meal suggestion fails and comes back as a value
C1_Witness ==
    /\ Executed
    /\ op.function_name = "meal_suggestion"
    /\ op.openai = OpenAIRaises
    /\ GenerationCalled
    /\ ret = [raised |-> FALSE, value |-> [error |-> "OpenAI API error"]]

\* C2: for a name that is not one of the seven registered capabilities,
\* execute_function returns an {error: ...} value, raises nothing and calls
\* neither adapter (and no operation).
C2_UnknownCapability ==
    (Executed /\ op.function_name \notin RegisteredNames) =>
        /\ IsErrorValue(ret)
        /\ calls = <<>>

C2_Witness ==
    /\ Executed
    /\ op.function_name = "make_coffee"
    /\ op.params = [image |-> ImgA]
    /\ op.openai = OpenAIText
    /\ IsErrorValue(ret)

\* C3: for a registered capability, the operation is invoked with the
\* default the registry declares for every optional parameter the bag
\* lacks, and with the bag's own value for every parameter it holds.
C3_RegistryDefaults ==
    (Executed /\ op.function_name \in RegisteredNames /\ IsDict(op.params)) =>
        LET entry == Registry(op.function_name) IN
        /\ Len(Invocations) = 1
        /\ Invocations[1].operation = op.function_name
        /\ DOMAIN Invocations[1].args = entry.properties
        /\ \A k \in entry.properties :
              /\ k \in DOMAIN op.params => Invocations[1].args[k] = op.params[k]
              /\ (k \notin DOMAIN op.params /\ k \notin entry.required)
                    => /\ k \in DOMAIN entry.default
                       /\ Invocations[1].args[k] = entry.default[k]

\* weekly_menu with only a budget: the other three take their defaults
C3_Witness ==
    /\ Executed
    /\ op.function_name = "weekly_menu"
    /\ op.params = [budget_range |-> "50k"]
    /\ Len(Invocations) = 1
    /\ Invocations[1].args = [health_condition |-> "khoe manh",
                              dietary_preferences |-> "khong",
                              budget_range |-> "50k",
                              cooking_time |-> "45 phut"]

(***************************************************************************)
(* /api/agent: ai_agent (src/AI.py:654-748). The operator gives the        *)
(* response, the session store after the request and the calls made.       *)
(* fresh is the value of str(uuid.uuid4()); intent_response is what the    *)
(* generation service does with the classifier's request.                  *)
(***************************************************************************)
\* str.strip() on the messages of the model
Blank == {"", "   "}
\* a variant that leaves the message as it came
StripNothing(message) == message
Strip(message) == IF message \in Blank THEN "" ELSE message

\* a variant that stores the turn in place of the list
Append2Replacing(convs, session_id, turn) ==
    [convs EXCEPT ![session_id] = <<turn>>]

\* conversation_history.append(turn) on the list stored under session_id
Append2(convs, session_id, turn) ==
    [convs EXCEPT ![session_id] = Append(@, turn)]

EmptyMessage == [status |-> 400, body |-> [error |-> "Tin nhan khong duoc de trong"]]

\* f"Toi can them thong tin: {', '.join(missing_info)}" (src/AI.py:695-698)
NeedMoreInfo(missing_info) ==
    [status |-> "need_more_info",
     message |-> [prefix |-> "Toi can them thong tin: ", separator |-> ", ",
                  joined |-> missing_info]]

\* src/AI.py:703-719
AnalyzeFoodSuggestions == <<"so sanh voi mon khac", "thuc don tuan", "cach lam tot hon">>
MealSuggestions == <<"thuc don ca tuan", "cong thuc chi tiet", "dieu chinh theo muc tieu">>
DefaultSuggestions == <<"cho toi biet them chi tiet", "gui anh de phan tich">>

\* the classifier's request, src/AI.py:268-303: the message, the number of
\* images and the last three turns
ClassifierCall(message, images, conversation_history) ==
    [adapter |-> "analyze_user_intent", message |-> message,
     images |-> Len(images),
     history |-> SubSeq(conversation_history,
                        IF Len(conversation_history) > 3
                        THEN Len(conversation_history) - 2 ELSE 1,
                        Len(conversation_history))]

\* a variant that merges every attribute of the profile the bag lacks
RECURSIVE MergeKeys(_, _, _)
MergeKeys(bag, user_profile, keys) ==
    IF keys = {} THEN bag
    ELSE LET k == CHOOSE x \in keys : TRUE
         IN  MergeKeys(IF k \in DOMAIN bag THEN bag ELSE Put(bag, k, user_profile[k]),
                       user_profile, keys \ {k})
OverlayWholeProfile(suggested_params, user_profile) ==
    MergeKeys(suggested_params, user_profile, DOMAIN user_profile)

\* src/AI.py:675-679: the overlay of a stored profile
Overlay(suggested_params, user_profile) ==
    LET with_health ==
            IF "health_condition" \notin DOMAIN suggested_params
            THEN Put(suggested_params, "health_condition",
                     Get(user_profile, "health_condition", "khoe manh"))
            ELSE suggested_params
    IN  IF "target_calories" \notin DOMAIN with_health
        THEN Put(with_health, "target_calories",
                 Get(user_profile, "target_calories", "2000"))
        ELSE with_health

\* src/AI.py:681-685: the request's images become image or images
AttachImages(suggested_params, intent, images) ==
    IF intent \in {"analyze_food", "quick_scan"}
    THEN Put(suggested_params, "image", images[1])
    ELSE IF intent \in {"compare_foods", "track_calories"}
    THEN Put(suggested_params, "images", images)
    ELSE suggested_params

\* a variant that withholds execution when the confidence is below one half
AgentResultConfidenceGate(auto_execute, intent_analysis, suggested_params, env) ==
    IF ~auto_execute
    THEN [raised |-> FALSE, value |-> NoneResult, calls |-> <<>>]
    ELSE IF Get(intent_analysis, "missing_info", <<>>) # <<>>
    THEN [raised |-> FALSE, value |-> NeedMoreInfo(intent_analysis.missing_info),
          calls |-> <<>>]
    ELSE IF "intent" \notin DOMAIN intent_analysis
    THEN [raised |-> TRUE, message |-> "KeyError", calls |-> <<>>]
    ELSE IF Get(intent_analysis, "confidence", 100) < 50
    THEN [raised |-> FALSE, value |-> NoneResult, calls |-> <<>>]
    ELSE LET Logged(outcome) ==
                 [raised |-> FALSE, value |-> outcome.value,
                  calls |-> <<[executed |-> intent_analysis.intent,
                              params |-> suggested_params]>>
                            \o outcome.calls \o outcome.invoked]
         IN  Logged(execute_function(intent_analysis.intent, suggested_params, env))

\* a variant that executes without looking at missing_info
AgentResultIgnoringMissing(auto_execute, intent_analysis, suggested_params, env) ==
    IF ~auto_execute
    THEN [raised |-> FALSE, value |-> NoneResult, calls |-> <<>>]
    ELSE IF "intent" \notin DOMAIN intent_analysis
    THEN [raised |-> TRUE, message |-> "KeyError", calls |-> <<>>]
    ELSE LET Logged(outcome) ==
                 [raised |-> FALSE, value |-> outcome.value,
                  calls |-> <<[executed |-> intent_analysis.intent,
                              params |-> suggested_params]>>
                            \o outcome.calls \o outcome.invoked]
         IN  Logged(execute_function(intent_analysis.intent, suggested_params, env))

\* src/AI.py:687-698: result, with the calls of the execution
AgentResult(auto_execute, intent_analysis, suggested_params, env) ==
    IF ~auto_execute
    THEN [raised |-> FALSE, value |-> NoneResult, calls |-> <<>>]
    ELSE IF Get(intent_analysis, "missing_info", <<>>) = <<>>
    THEN IF "intent" \notin DOMAIN intent_analysis
         THEN [raised |-> TRUE, message |-> "KeyError", calls |-> <<>>]
         ELSE LET Logged(outcome) ==
                      [raised |-> FALSE, value |-> outcome.value,
                       calls |-> <<[executed |-> intent_analysis.intent,
                                   params |-> suggested_params]>>
                                 \o outcome.calls \o outcome.invoked]
              IN  Logged(execute_function(intent_analysis.intent,
                                          suggested_params, env))
    ELSE [raised |-> FALSE, value |-> NeedMoreInfo(intent_analysis.missing_info),
          calls |-> <<>>]

\* src/AI.py:700-719
Suggestions(result, intent_analysis) ==
    IF result # NoneResult /\ result # EmptyDict /\ "error" \notin DOMAIN result
    THEN IF intent_analysis.intent = "analyze_food" THEN AnalyzeFoodSuggestions
         ELSE IF intent_analysis.intent = "meal_suggestion" THEN MealSuggestions
         ELSE <<>>
    ELSE Get(intent_analysis, "next_suggestions", DefaultSuggestions)

\* the except clause of src/AI.py:747-748, with the store as the failure left it
AgentFailed(message, store, made) ==
    [response |-> ServerError(message), conversations |-> store, calls |-> made]

\* src/AI.py:700-748, once result is known
AgentRespond(data, fresh, created, intent_analysis, asked, outcome) ==
    LET message == Strip(Get(data, "message", ""))
        images == Get(data, "images", <<>>)
        session_id == Get(data, "session_id", fresh)
        auto_execute == Get(data, "auto_execute", TRUE)
        result == outcome.value
        made == asked \o outcome.calls
        with_user == Append2(created, session_id,
                             [role |-> "user", content |-> message,
                              has_images |-> Len(images) > 0])
    IN
    IF "intent" \notin DOMAIN intent_analysis
    THEN \* line 703 when there is a result without error, else line 728
         IF result # NoneResult /\ result # EmptyDict /\ "error" \notin DOMAIN result
         THEN AgentFailed("KeyError", created, made)
         ELSE AgentFailed("KeyError", with_user, made)
    ELSE
    LET with_both == Append2(with_user, session_id,
                             [role |-> "assistant",
                              intent |-> intent_analysis.intent,
                              result |-> result])
    IN
    IF ~({"confidence", "explanation"} \subseteq DOMAIN intent_analysis)
    THEN AgentFailed("KeyError", with_both, made)
    ELSE [response |->
             [status |-> 200,
              body |-> [success |-> TRUE,
                        session_id |-> session_id,
                        intent_analysis |->
                            [intent |-> intent_analysis.intent,
                             confidence |-> intent_analysis.confidence,
                             explanation |-> intent_analysis.explanation,
                             alternative_actions |->
                                 Get(intent_analysis, "alternative_actions", <<>>),
                             missing_info |->
                                 Get(intent_analysis, "missing_info", <<>>)],
                        result |-> result,
                        suggestions |-> Suggestions(result, intent_analysis),
                        executed |-> auto_execute /\ result # NoneResult]],
          conversations |-> with_both,
          calls |-> made]

\* src/AI.py:672-698, once the decision is known
AgentDecide(data, fresh, env, created, profiles, intent_analysis, asked) ==
    LET images == Get(data, "images", <<>>)
        user_id == Get(data, "user_id", None)
        auto_execute == Get(data, "auto_execute", TRUE)
        has_profile == user_id \notin {None, ""} /\ user_id \in DOMAIN profiles
    IN
    IF ~IsDict(intent_analysis) THEN AgentFailed("AttributeError", created, asked)
    ELSE
    LET suggested == Get(intent_analysis, "suggested_params", EmptyDict) IN
    IF has_profile /\ ~IsDict(suggested) THEN AgentFailed("TypeError", created, asked)
    ELSE
    LET overlaid == IF has_profile THEN Overlay(suggested, profiles[user_id])
                    ELSE suggested
    IN
    IF images # <<>> /\ "intent" \notin DOMAIN intent_analysis
    THEN AgentFailed("KeyError", created, asked)
    ELSE IF /\ images # <<>>
            /\ intent_analysis.intent \in {"analyze_food", "quick_scan",
                                           "compare_foods", "track_calories"}
            /\ ~IsDict(overlaid)
    THEN AgentFailed("TypeError", created, asked)
    ELSE
    LET suggested_params == IF images # <<>>
                            THEN AttachImages(overlaid, intent_analysis.intent, images)
                            ELSE overlaid
        Continue(outcome) ==
            IF outcome.raised
            THEN AgentFailed(outcome.message, created, asked \o outcome.calls)
            ELSE AgentRespond(data, fresh, created, intent_analysis, asked, outcome)
    IN  Continue(AgentResult(auto_execute, intent_analysis, suggested_params, env))

\* src/AI.py:654-748
ai_agent(data, fresh, env, convs, profiles) ==
    IF ~IsDict(data)
    THEN [response |-> ServerError("AttributeError"), conversations |-> convs,
          calls |-> <<>>]
    ELSE
    LET message == Strip(Get(data, "message", ""))
        images == Get(data, "images", <<>>)
        session_id == Get(data, "session_id", fresh)
    IN
    IF message = ""
    THEN [response |-> EmptyMessage, conversations |-> convs, calls |-> <<>>]
    ELSE
    LET created == IF session_id \in DOMAIN convs THEN convs
                   ELSE Put(convs, session_id, <<>>)
    IN  AgentDecide(data, fresh, env, created, profiles,
                    analyze_user_intent(env.intent).decision,
                    <<ClassifierCall(message, images, created[session_id])>>)

(***************************************************************************)
(* /api/chat: chat (src/AI.py:1148-1183) and the profile routes            *)
(* (src/AI.py:1807-1835)                                                   *)
(***************************************************************************)
\* history[-10:], src/AI.py:1165
ContextWindow == 10

\* a variant that takes the first turns, history[:10]
LastTurnsFirst(history) ==
    SubSeq(history, 1, IF Len(history) > ContextWindow THEN ContextWindow ELSE Len(history))

LastTurns(history) ==
    SubSeq(history,
           IF Len(history) > ContextWindow THEN Len(history) - ContextWindow + 1 ELSE 1,
           Len(history))

\* messages: the system prompt, the last turns, the new message
ChatCall(history, message) ==
    [adapter |-> "chat.completions.create",
     messages |-> <<[role |-> "system", content |-> "AGENT_SYSTEM_PROMPT"]>>
                  \o LastTurns(history)
                  \o <<[role |-> "user", content |-> message]>>]

chat(data, fresh, env, convs, profiles) ==
    IF ~IsDict(data)
    THEN [response |-> ServerError("AttributeError"), conversations |-> convs,
          calls |-> <<>>]
    ELSE
    LET message == Strip(Get(data, "message", ""))
        session_id == Get(data, "session_id", fresh)
        use_agent == Get(data, "use_agent", FALSE)
    IN
    IF message = ""
    THEN [response |-> EmptyMessage, conversations |-> convs, calls |-> <<>>]
    ELSE IF use_agent THEN ai_agent(data, fresh, env, convs, profiles)
    ELSE
    LET created == IF session_id \in DOMAIN convs THEN convs
                   ELSE Put(convs, session_id, <<>>)
        history == created[session_id]
        asked == <<ChatCall(history, message)>>
        reply == CompletionTry(env.openai["chat"])
    IN
    IF reply.raised
    THEN [response |-> ServerError(reply.message), conversations |-> created,
          calls |-> asked]
    ELSE [response |-> [status |-> 200,
                        body |-> [reply |-> reply.text, session_id |-> session_id]],
          conversations |->
              Append2(Append2(created, session_id,
                              [role |-> "user", content |-> message]),
                      session_id, [role |-> "assistant", content |-> reply.text]),
          calls |-> asked]

\* a variant that keeps the stored value of an attribute the body omits
ProfileOfMerged(data) ==
    LET user_id == Get(data, "user_id", "uuid-2")
        stored == Get(user_profiles, user_id, EmptyDict)
    IN  [name |-> Get(data, "name", Get(stored, "name", None)),
         age |-> Get(data, "age", Get(stored, "age", None)),
         weight |-> Get(data, "weight", Get(stored, "weight", None)),
         height |-> Get(data, "height", Get(stored, "height", None)),
         health_condition |->
             Get(data, "health_condition", Get(stored, "health_condition", "khoe manh")),
         dietary_preferences |->
             Get(data, "dietary_preferences", Get(stored, "dietary_preferences", <<>>)),
         allergies |-> Get(data, "allergies", Get(stored, "allergies", <<>>)),
         target_calories |->
             Get(data, "target_calories", Get(stored, "target_calories", "2000")),
         activity_level |->
             Get(data, "activity_level", Get(stored, "activity_level", "vua phai"))]

\* the profile save_user_profile stores for a body, src/AI.py:1811-1821
ProfileOf(data) ==
    [name |-> Get(data, "name", None),
     age |-> Get(data, "age", None),
     weight |-> Get(data, "weight", None),
     height |-> Get(data, "height", None),
     health_condition |-> Get(data, "health_condition", "khoe manh"),
     dietary_preferences |-> Get(data, "dietary_preferences", <<>>),
     allergies |-> Get(data, "allergies", <<>>),
     target_calories |-> Get(data, "target_calories", "2000"),
     activity_level |-> Get(data, "activity_level", "vua phai")]

\* /api/user/profile POST, src/AI.py:1807-1826
save_user_profile(data, fresh, profiles) ==
    IF ~IsDict(data)
    THEN [response |-> ServerError("AttributeError"), user_profiles |-> profiles]
    ELSE LET user_id == Get(data, "user_id", fresh)
         IN  [response |-> [status |-> 200,
                            body |-> [message |-> "Luu thong tin thanh cong",
                                      user_id |-> user_id]],
              user_profiles |-> Put(profiles, user_id, ProfileOf(data))]

\* /api/user/profile/<user_id> GET, src/AI.py:1829-1835
get_user_profile(user_id, profiles) ==
    IF user_id \notin DOMAIN profiles
    THEN [status |-> 404, body |-> [error |-> "Khong tim thay nguoi dung"]]
    ELSE [status |-> 200, body |-> profiles[user_id]]

(***************************************************************************)
(* SpecAgent: one /api/agent request, drawn by Init together with the      *)
(* stores it finds and the behaviour of the services.                      *)
(***************************************************************************)
TextEnv == [clarifai |-> Everywhere(PhoRecognized), openai |-> Always(OpenAIText),
            intent |-> [raises |-> TRUE, content |-> NoneText]]

\* stores earlier requests leave: one chat exchange in s1, a profile of u1
StoredConversations ==
    {EmptyDict,
     chat([message |-> "xin chao", session_id |-> "s1"], "uuid-0", TextEnv,
          EmptyDict, EmptyDict).conversations}
StoredProfiles ==
    {EmptyDict,
     save_user_profile([user_id |-> "u1", health_condition |-> "tieu duong",
                        target_calories |-> "1500", name |-> "An"],
                       "uuid-0", EmptyDict).user_profiles}

\* what the classifier's model may answer: decisions with every field...
CompareDecision == Decision("compare_foods", 90, EmptyDict, <<>>)
ScanDecision == Decision("quick_scan", 70, EmptyDict, <<>>)
AnalyzeDecision == Decision("analyze_food", 85, [health_condition |-> "gout"], <<>>)
UnsureMealDecision == Decision("meal_suggestion", 10, [meal_time |-> "toi"], <<>>)
NeedInfoMealDecision == Decision("meal_suggestion", 60, EmptyDict, <<"budget_range">>)
\* ... and JSON that lacks fields or gives null for the parameters
NoIntentNeedInfo == [missing_info |-> <<"image">>, confidence |-> 40,
                     explanation |-> "explanation"]
NoIntentDecision == [confidence |-> 40, explanation |-> "explanation"]
NullParamsDecision == Decision("meal_suggestion", 90, NotADict, <<>>)

FullDecisions == {MealDecision, UnsureMealDecision, NeedInfoMealDecision,
                  NeedInfoDecision, CompareDecision, ScanDecision, AnalyzeDecision}
PartialDecisions == {NoIntentNeedInfo, NoIntentDecision, NoConfidenceDecision,
                     NullParamsDecision, NotADict}

AgentIntentResponses ==
    {[raises |-> TRUE, content |-> NoneText],
     [raises |-> FALSE, content |-> <<Prose>>]}
    \cup {[raises |-> FALSE, content |-> <<Json(d)>>] : d \in FullDecisions \cup PartialDecisions}
    \cup {[raises |-> FALSE, content |-> <<Prose, FenceJson, Json(NeedInfoDecision), Fence>>]}

AgentBodies ==
    {b \in Bags({"message", "images", "session_id", "user_id", "auto_execute"}) :
        "message" \in DOMAIN b \/ DOMAIN b = {}}

AgentOps ==
    [kind : {"ai_agent"},
     data : AgentBodies,
     fresh : {"uuid-1"},
     intent : AgentIntentResponses,
     clarifai : {TransportError, PhoRecognized},
     openai : {OpenAIText, OpenAIRaises}]

AgentEnv(o) == [clarifai |-> Everywhere(o.clarifai), openai |-> Always(o.openai),
                intent |-> o.intent]

InitAgent ==
    /\ conversations \in StoredConversations
    /\ user_profiles \in StoredProfiles
    /\ op \in AgentOps
    /\ ret = Pending
    /\ calls = <<>>
    /\ memo = NoMemo
    /\ threads = <<>>
    /\ heap = <<>>

Agent ==
    /\ ret = Pending
    /\ op.kind = "ai_agent"
    /\ LET done == ai_agent(op.data, op.fresh, AgentEnv(op), conversations,
                            user_profiles)
       IN  /\ ret' = done.response
           /\ conversations' = done.conversations
           /\ calls' = done.calls
    /\ UNCHANGED <<user_profiles, op, memo, threads, heap>>

NextAgent == Agent

SpecAgent == InitAgent /\ [][NextAgent]_vars

(***************************************************************************)
(* Properties of /api/agent                                                *)
(***************************************************************************)
Answered == op.kind = "ai_agent" /\ ret # Pending

\* the request asks for execution: a body with a message, auto_execute not false
AutoExecuting ==
    /\ IsDict(op.data)
    /\ Strip(Get(op.data, "message", "")) # ""
    /\ Get(op.data, "auto_execute", TRUE)

\* what the classifier decided for the request
Decided == analyze_user_intent(op.intent).decision
MissingInfo == IF IsDict(Decided) THEN Get(Decided, "missing_info", <<>>) ELSE <<>>

\* the decision has every field the response reads, and a bag of parameters
FullDecision ==
    /\ IsDict(Decided)
    /\ {"intent", "confidence", "explanation"} \subseteq DOMAIN Decided
    /\ IsDict(Get(Decided, "suggested_params", EmptyDict))

SessionOf == Get(op.data, "session_id", op.fresh)

\* the assistant turns the request appended to its session
NewTurns ==
    IF SessionOf \notin DOMAIN conversations' THEN <<>>
    ELSE SubSeq(conversations'[SessionOf],
                Len(Get(conversations, SessionOf, <<>>)) + 1,
                Len(conversations'[SessionOf]))
IsAssistant(turn) == turn.role = "assistant"

ListsMissing(result) ==
    result = [status |-> "need_more_info",
              message |-> [prefix |-> "Toi can them thong tin: ",
                           separator |-> ", ", joined |-> MissingInfo]]

\* C4: in an auto-executing /api/agent request whose decision has a
\* non-empty missing_info list, only the classifier is called: there is no
\* execute_function, no operation and no other adapter call; the result,
\* in the response and in the turn recorded for it, has status
\* need_more_info and a message that joins the missing fields as given, in
\* the given order; a decision with all its fields is answered with 200.
C4_NeedMoreInfo ==
    [][(Agent /\ AutoExecuting /\ MissingInfo # <<>>) =>
         /\ Len(calls') = 1
         /\ calls'[1].adapter = "analyze_user_intent"
         /\ ret'.status \in {200, 500}
         /\ ret'.status = 200 => ListsMissing(ret'.body.result)
         /\ \A i \in DOMAIN NewTurns :
               IsAssistant(NewTurns[i]) => ListsMissing(NewTurns[i].result)
         /\ FullDecision => ret'.status = 200]_vars

C4_Witness ==
    /\ Answered /\ AutoExecuting
    /\ Len(MissingInfo) = 2 /\ MissingInfo[1] = "image"
    /\ ret.status = 200
    /\ ret.body.result.status = "need_more_info"
    /\ ret.body.result.message.joined = <<"image", "health_condition">>
    /\ "images" \in DOMAIN op.data

\* the classifier failed: the call raised, or the text is not JSON
ClassifierFailed == op.intent.raises \/ NotJsonText(op.intent.content)

\* C6: when the classifier fails and the fallback decision is used, an
\* auto-executing /api/agent request is answered with a result that is not
\* an error value.
C6_FallbackDegradesToChat ==
    (Answered /\ AutoExecuting /\ ClassifierFailed) =>
        /\ ret.status = 200
        /\ "error" \notin DOMAIN ret.body.result

(***************************************************************************)
(* Spec: the server. Requests to /api/chat, /api/agent and                 *)
(* /api/user/profile and calls of execute_function follow each other in    *)
(* any order on the two stores, which start empty (src/AI.py:33-34). Each  *)
(* step draws its input and the behaviour of the services.                 *)
(***************************************************************************)
\* uuid4 gives an identifier nobody used before
FreshSession == "uuid-1"
FreshUser == "uuid-2"

RECURSIVE TotalTurns(_)
TotalTurns(convs) ==
    IF DOMAIN convs = {} THEN 0
    ELSE LET k == CHOOSE x \in DOMAIN convs : TRUE
         IN  Len(convs[k]) + TotalTurns([x \in DOMAIN convs \ {k} |-> convs[x]])

\* the stores have room for the session and the two turns of one more request
Room(data) ==
    /\ TotalTurns(conversations) + 2 <= MaxTurns
    /\ "session_id" \in DOMAIN data \/ FreshSession \notin DOMAIN conversations

ChatBodies ==
    {[message |-> "xin chao", session_id |-> "s1"],
     [message |-> "   "],
     [message |-> "an gi hom nay", use_agent |-> TRUE]}

AgentRequests ==
    {[message |-> "an gi bua trua", session_id |-> "s1", user_id |-> "u1"],
     [message |-> "mon gi day", images |-> <<ImgA>>, user_id |-> "u1"]}

ProfileBodies ==
    {[user_id |-> "u1", health_condition |-> "tieu duong", target_calories |-> "1500"],
     EmptyDict}

\* the services during one step: what classification, recognition and
\* generation answer
StepEnv(intent, openai) ==
    [clarifai |-> Everywhere(PhoRecognized), openai |-> Always(openai),
     intent |-> intent]
StepEnvs ==
    {StepEnv([raises |-> TRUE, content |-> NoneText], OpenAIText),
     StepEnv([raises |-> FALSE, content |-> <<Json(NeedInfoDecision)>>], OpenAIRaises)}

DispatchCalls ==
    [kind : {"execute_function"},
     function_name : {"analyze_food", "meal_suggestion"},
     params : {[user_id |-> "u1"],
               [image |-> ImgA, health_condition |-> "gout", user_id |-> "u1"]},
     env : StepEnvs]

Init ==
    /\ conversations = EmptyDict
    /\ user_profiles = EmptyDict
    /\ op = [kind |-> "none"]
    /\ ret = Pending
    /\ calls = <<>>
    /\ memo = NoMemo
    /\ threads = <<>>
    /\ heap = <<>>

Chat ==
    \E data \in ChatBodies, env \in StepEnvs :
        /\ Room(data)
        /\ LET done == chat(data, FreshSession, env, conversations, user_profiles)
           IN  /\ op' = [kind |-> "chat", data |-> data, env |-> env]
               /\ ret' = done.response
               /\ conversations' = done.conversations
               /\ calls' = done.calls
        /\ UNCHANGED <<user_profiles, memo, threads, heap>>

AgentRequest ==
    \E data \in AgentRequests, env \in StepEnvs :
        /\ Room(data)
        /\ LET done == ai_agent(data, FreshSession, env, conversations, user_profiles)
           IN  /\ op' = [kind |-> "ai_agent", data |-> data, env |-> env]
               /\ ret' = done.response
               /\ conversations' = done.conversations
               /\ calls' = done.calls
        /\ UNCHANGED <<user_profiles, memo, threads, heap>>

SaveProfile ==
    \E data \in ProfileBodies :
        /\ "user_id" \in DOMAIN data \/ FreshUser \notin DOMAIN user_profiles
        /\ LET done == save_user_profile(data, FreshUser, user_profiles)
           IN  /\ op' = [kind |-> "save_user_profile", data |-> data]
               /\ ret' = done.response
               /\ user_profiles' = done.user_profiles
        /\ calls' = <<>>
        /\ UNCHANGED <<conversations, memo, threads, heap>>

\* a call of execute_function; the history variable keeps it or not
Dispatch ==
    \E call \in DispatchCalls :
        LET outcome == execute_function(call.function_name, call.params, call.env)
            made == outcome.calls \o outcome.invoked
            returned == IF outcome.raised
                        THEN [raised |-> TRUE, message |-> outcome.message,
                              params |-> outcome.params]
                        ELSE [raised |-> FALSE, value |-> outcome.value,
                              params |-> outcome.params]
        IN  /\ op' = call
            /\ ret' = returned
            /\ calls' = made
            /\ memo' \in {memo, [op |-> call, ret |-> returned, calls |-> made,
                                  turns |-> TotalTurns(conversations),
                                  users |-> DOMAIN user_profiles]}
            /\ UNCHANGED <<conversations, user_profiles, threads, heap>>

Next == Chat \/ AgentRequest \/ SaveProfile \/ Dispatch

Spec == Init /\ [][Next]_vars

C11_TwoTurnsOnSuccess ==
    [][(Agent /\ ret'.status = 200) =>
         /\ SessionOf \in DOMAIN conversations'
         /\ Len(NewTurns) = 2
         /\ NewTurns[1].role = "user" /\ NewTurns[2].role = "assistant"
         /\ Len(conversations'[SessionOf])
               = Len(Get(conversations, SessionOf, <<>>)) + 2
         /\ \A s \in DOMAIN conversations :
               /\ s \in DOMAIN conversations'
               /\ SubSeq(conversations'[s], 1, Len(conversations[s])) = conversations[s]
               /\ s # SessionOf => conversations'[s] = conversations[s]
         /\ DOMAIN conversations' = DOMAIN conversations \cup {SessionOf}]_vars

C11_Witness ==
    /\ Answered /\ ret.status = 200
    /\ "session_id" \notin DOMAIN op.data
    /\ "error" \in DOMAIN ret.body.result
    /\ Len(conversations[op.fresh]) = 2
    /\ conversations[op.fresh][1].role = "user"
    /\ conversations[op.fresh][2].role = "assistant"

RequestImages == Get(op.data, "images", <<>>)

\* the operations execute_function called for the request
InvokedOperations ==
    {calls[i].operation : i \in {j \in DOMAIN calls : IsInvocation(calls[j])}}

\* C12: on the agent path a comparison with one image (the classifier
\* selects compare_foods, nothing is missing, the request carries one
\* image) ends in a validation error and the compare operation is not
\* invoked.
C12_AgentCompareNeedsTwoImages ==
    (/\ Answered /\ AutoExecuting /\ FullDecision
     /\ Decided.intent = "compare_foods" /\ MissingInfo = <<>>
     /\ Len(RequestImages) = 1) =>
        /\ ret.status \in {200, 400}
        /\ ret.status = 200 => "error" \in DOMAIN ret.body.result
        /\ "compare_foods" \notin InvokedOperations

(***************************************************************************)
(* /api/compare-foods: compare_foods (src/AI.py:1347-1358)                 *)
(***************************************************************************)
TooFewImages == [status |-> 400, body |-> [error |-> "Can it nhat 2 anh"]]

\* a variant that asks for one image only
compare_foods_one_image(data, env) ==
    IF ~IsDict(data)
    THEN [response |-> ServerError("AttributeError"), calls |-> <<>>]
    ELSE IF Len(Get(data, "images", <<>>)) < 1
    THEN [response |-> TooFewImages, calls |-> <<>>]
    ELSE LET Answer(outcome) ==
                 [response |-> IF outcome.raised THEN ServerError(outcome.message)
                               ELSE [status |-> 200,
                                     body |-> Put(outcome.value, "success", TRUE)],
                  calls |-> outcome.calls]
         IN  Answer(internal_compare_foods(Get(data, "images", <<>>),
                                           Get(data, "health_condition", "khoe manh"),
                                           env))

\* src/AI.py:1347-1358
compare_foods(data, env) ==
    IF ~IsDict(data)
    THEN [response |-> ServerError("AttributeError"), calls |-> <<>>]
    ELSE IF Len(Get(data, "images", <<>>)) < 2
    THEN [response |-> TooFewImages, calls |-> <<>>]
    ELSE LET Answer(outcome) ==
                 [response |-> IF outcome.raised THEN ServerError(outcome.message)
                               ELSE [status |-> 200,
                                     body |-> Put(outcome.value, "success", TRUE)],
                  calls |-> outcome.calls]
         IN  Answer(internal_compare_foods(Get(data, "images", <<>>),
                                           Get(data, "health_condition", "khoe manh"),
                                           env))

(***************************************************************************)
(* SpecCompare: one /api/compare-foods request drawn by Init               *)
(***************************************************************************)
CompareOps ==
    [kind : {"compare_foods"},
     data : Bags({"images", "health_condition"}) \cup {NotADict},
     response : {TransportError, NothingRecognized, PhoRecognized},
     openai : {OpenAIText, OpenAIRaises}]

InitCompare ==
    /\ conversations = EmptyDict
    /\ user_profiles = EmptyDict
    /\ op \in CompareOps
    /\ ret = Pending
    /\ calls = <<>>
    /\ memo = NoMemo
    /\ threads = <<>>
    /\ heap = <<>>

CompareFoods ==
    /\ ret = Pending
    /\ op.kind = "compare_foods"
    /\ LET done == compare_foods(op.data, EnvOf(op))
       IN  /\ ret' = done.response
           /\ calls' = done.calls
    /\ UNCHANGED <<conversations, user_profiles, op, memo, threads, heap>>

NextCompare == CompareFoods

SpecCompare == InitCompare /\ [][NextCompare]_vars

\* C13: a /api/compare-foods request with no image or one image is answered
\* 400 with an error message, and neither recognition nor generation is
\* called for it.
C13_CompareRouteValidates ==
    (/\ op.kind = "compare_foods" /\ ret # Pending /\ IsDict(op.data)
     /\ Len(Get(op.data, "images", <<>>)) < 2) =>
        /\ ret.status = 400
        /\ DOMAIN ret.body = {"error"}
        /\ calls = <<>>

C13_Witness ==
    /\ op.kind = "compare_foods" /\ ret # Pending /\ IsDict(op.data)
    /\ Len(Get(op.data, "images", <<>>)) = 1
    /\ ret.status = 400
    /\ calls = <<>>

(***************************************************************************)
(* SpecConcurrent: two requests for one session id handled by two threads  *)
(* of the server (app.run, src/AI.py:1849). A thread may be switched       *)
(* between any two statements, so each statement that touches the session  *)
(* store is a step of its own: the membership test and the creation of the *)
(* list (src/AI.py:665-666, 1160-1161), the read of the list reference     *)
(* (667, 1163), the work on it, and each append (721-730, 1177-1178). Here *)
(* conversations maps a session id to a reference and heap maps the        *)
(* reference to the turns of that list object.                             *)
(***************************************************************************)
Threads == {1, 2}
SharedSession == "s1"
PriorTurns == chat([message |-> "xin chao", session_id |-> "s1"], "uuid-0", TextEnv,
                   EmptyDict, EmptyDict).conversations["s1"]

ThreadRequests(t) ==
    [kind : {"chat", "ai_agent"},
     data : {[message |-> IF t = 1 THEN "cau hoi mot" ELSE "cau hoi hai",
              session_id |-> SharedSession]},
     env : StepEnvs,
     pc : {"check"},
     history : {None},
     pending : {<<>>},
     appended : {<<>>},
     response : {Pending}]

InitConcurrent ==
    /\ \/ conversations = EmptyDict /\ heap = EmptyDict
       \/ conversations = [s \in {SharedSession} |-> "L0"]
          /\ heap = [r \in {"L0"} |-> PriorTurns]
    /\ threads \in {f \in [Threads -> UNION {ThreadRequests(t) : t \in Threads}] :
                       \A t \in Threads : f[t] \in ThreadRequests(t)}
    /\ user_profiles = EmptyDict
    /\ op = [kind |-> "concurrent"]
    /\ ret = Pending
    /\ calls = <<>>
    /\ memo = NoMemo

\* the list object thread t creates
NewList(t) == IF t = 1 THEN "L1" ELSE "L2"

\* if session_id not in conversations
CheckSession(t) ==
    /\ threads[t].pc = "check"
    /\ threads' = [threads EXCEPT ![t].pc =
                      IF threads[t].data.session_id \in DOMAIN conversations
                      THEN "read" ELSE "create"]
    /\ UNCHANGED <<conversations, heap, user_profiles, op, ret, calls, memo>>

\* conversations[session_id] = []
CreateSession(t) ==
    /\ threads[t].pc = "create"
    /\ conversations' = Put(conversations, threads[t].data.session_id, NewList(t))
    /\ heap' = Put(heap, NewList(t), <<>>)
    /\ threads' = [threads EXCEPT ![t].pc = "read"]
    /\ UNCHANGED <<user_profiles, op, ret, calls, memo>>

\* conversation_history = conversations[session_id]
ReadSession(t) ==
    /\ threads[t].pc = "read"
    /\ threads' = [threads EXCEPT ![t].pc = "handle",
                                  ![t].history = conversations[threads[t].data.session_id]]
    /\ UNCHANGED <<conversations, heap, user_profiles, op, ret, calls, memo>>

\* what the handler does with the list it holds: the turns it will append
\* and its response
Handled(t) ==
    LET me == threads[t]
        sid == me.data.session_id
        before == [s \in {sid} |-> heap[me.history]]
        Outcome(done) ==
            [pending |-> SubSeq(done.conversations[sid], Len(before[sid]) + 1,
                                Len(done.conversations[sid])),
             response |-> done.response]
    IN  IF me.kind = "chat"
        THEN Outcome(chat(me.data, "uuid-1", me.env, before, user_profiles))
        ELSE Outcome(ai_agent(me.data, "uuid-1", me.env, before, user_profiles))

\* classification, execution or generation, up to the first append
Handle(t) ==
    /\ threads[t].pc = "handle"
    /\ threads' = [threads EXCEPT ![t].pc = "append",
                                  ![t].pending = Handled(t).pending,
                                  ![t].response = Handled(t).response]
    /\ UNCHANGED <<conversations, heap, user_profiles, op, ret, calls, memo>>

\* conversation_history.append(turn), on the list the thread holds
AppendTurn(t) ==
    /\ threads[t].pc = "append"
    /\ threads[t].pending # <<>>
    /\ heap' = [heap EXCEPT ![threads[t].history] = Append(@, Head(threads[t].pending))]
    /\ threads' = [threads EXCEPT ![t].pending = Tail(@),
                                  ![t].appended = Append(@, Head(threads[t].pending))]
    /\ UNCHANGED <<conversations, user_profiles, op, ret, calls, memo>>

\* return jsonify(...)
Respond(t) ==
    /\ threads[t].pc = "append"
    /\ threads[t].pending = <<>>
    /\ threads' = [threads EXCEPT ![t].pc = "done"]
    /\ UNCHANGED <<conversations, heap, user_profiles, op, ret, calls, memo>>

NextConcurrent ==
    \E t \in Threads :
        \/ CheckSession(t)
        \/ CreateSession(t)
        \/ ReadSession(t)
        \/ Handle(t)
        \/ AppendTurn(t)
        \/ Respond(t)

SpecConcurrent == InitConcurrent /\ [][NextConcurrent]_vars

AllDone == DOMAIN threads = Threads /\ \A t \in Threads : threads[t].pc = "done"

\* the turns stored for the shared session
SharedTurns == heap[conversations[SharedSession]]

RECURSIVE AppendedBy(_)
AppendedBy(ts) ==
    IF ts = {} THEN 0
    ELSE LET t == CHOOSE x \in ts : TRUE
         IN  Len(threads[t].appended) + AppendedBy(ts \ {t})

\* C14: when two requests for the same session id are handled
\* concurrently, also two first requests for a session that does not exist
\* yet, no update is lost: once both have completed, the session's list
\* holds every turn both requests appended.
C14_NoLostUpdate ==
    AllDone =>
        /\ \A t \in Threads : \A i \in DOMAIN threads[t].appended :
              threads[t].appended[i] \in Range(SharedTurns)
        /\ Len(SharedTurns)
              = (IF "L0" \in DOMAIN heap THEN Len(PriorTurns) ELSE 0) + AppendedBy(Threads)

(***************************************************************************)
(* SpecChat: /api/chat requests for one session, one after the other, on a *)
(* store that starts empty, until the session holds more turns than the    *)
(* context takes.                                                          *)
(***************************************************************************)
ChatMessages == {"cau hoi mot", "cau hoi hai", "   "}

InitChat ==
    /\ conversations = EmptyDict
    /\ user_profiles = EmptyDict
    /\ op = [kind |-> "none"]
    /\ ret = Pending
    /\ calls = <<>>
    /\ memo = NoMemo
    /\ threads = <<>>
    /\ heap = <<>>

ChatRequest ==
    \E message \in ChatMessages, openai \in {OpenAIText, OpenAIRaises} :
        /\ Len(Get(conversations, SharedSession, <<>>)) <= MaxChatTurns
        /\ LET data == [message |-> message, session_id |-> SharedSession]
               env == StepEnv([raises |-> TRUE, content |-> NoneText], openai)
               done == chat(data, FreshSession, env, conversations, user_profiles)
           IN  /\ op' = [kind |-> "chat", data |-> data, env |-> env]
               /\ ret' = done.response
               /\ conversations' = done.conversations
               /\ calls' = done.calls
        /\ UNCHANGED <<user_profiles, memo, threads, heap>>

NextChat == ChatRequest

SpecChat == InitChat /\ [][NextChat]_vars

Min(a, b) == IF a < b THEN a ELSE b

C16_TurnsHaveRoleAndContent ==
    \A s \in DOMAIN conversations : \A i \in DOMAIN conversations[s] :
        /\ "role" \in DOMAIN conversations[s][i]
        /\ conversations[s][i].role \in {"user", "assistant"}
        /\ "content" \in DOMAIN conversations[s][i]

DecisionFields == {"intent", "confidence", "explanation", "suggested_params",
                   "missing_info", "alternative_actions", "next_suggestions"}

\* C17: every decision analyze_user_intent returns, whatever text the
\* generation service returned, has a capability name, a confidence in
\* [0,1] (0..100 hundredths), an explanation, a parameter bag and the lists
\* of missing information, alternatives and follow-up suggestions.
C17_DecisionHasAllFields ==
    (op.kind = "analyze_user_intent" /\ ret # Pending) =>
        /\ ~ret.raised
        /\ IsDict(ret.decision)
        /\ DecisionFields \subseteq DOMAIN ret.decision
        /\ ret.decision.confidence \in 0..100
        /\ IsDict(ret.decision.suggested_params)

OtherConfidences == {0, 49, 100}

\* the request as handled had the classifier given confidence c and
\* otherwise the same decision
Twin(c) ==
    ai_agent(op.data, op.fresh,
             [AgentEnv(op) EXCEPT !.intent =
                 [raises |-> FALSE,
                  content |-> <<Json([Decided EXCEPT !.confidence = c])>>]],
             conversations, user_profiles)

\* C18: confidence never gates execution. For two decisions that differ
\* only in confidence an auto-executing /api/agent request makes the same
\* calls (the same capability with the same parameters, or none because
\* information is missing) and stores the same turns.
C18_ConfidenceNeverGates ==
    [][(Agent /\ AutoExecuting /\ IsDict(Decided) /\ "confidence" \in DOMAIN Decided) =>
         \A c \in OtherConfidences :
             /\ Twin(c).calls = calls'
             /\ Twin(c).conversations = conversations'
             /\ Twin(c).response.status = ret'.status]_vars

C18_Witness ==
    /\ Answered /\ AutoExecuting /\ ret.status = 200
    /\ IsDict(Decided) /\ Decided = UnsureMealDecision
    /\ "meal_suggestion" \in InvokedOperations
    /\ ret.body.intent_analysis.confidence = 10

(***************************************************************************)
(* SpecProfile: profile saves and reads, one after the other, on a profile *)
(* store that starts empty.                                                *)
(***************************************************************************)
SavedBodies == Bags({"user_id", "health_condition", "target_calories"})
ReadIds == {"u1", "u9", FreshUser, "nobody"}

InitProfile ==
    /\ conversations = EmptyDict
    /\ user_profiles = EmptyDict
    /\ op = [kind |-> "none"]
    /\ ret = Pending
    /\ calls = <<>>
    /\ memo = NoMemo
    /\ threads = <<>>
    /\ heap = <<>>

SaveAnyProfile ==
    \E data \in SavedBodies :
        /\ "user_id" \in DOMAIN data \/ FreshUser \notin DOMAIN user_profiles
        /\ LET done == save_user_profile(data, FreshUser, user_profiles)
           IN  /\ op' = [kind |-> "save_user_profile", data |-> data]
               /\ ret' = done.response
               /\ user_profiles' = done.user_profiles
        /\ calls' = <<>>
        /\ UNCHANGED <<conversations, memo, threads, heap>>

ReadProfile ==
    \E user_id \in ReadIds :
        /\ op' = [kind |-> "get_user_profile", user_id |-> user_id]
        /\ ret' = get_user_profile(user_id, user_profiles)
        /\ calls' = <<>>
        /\ UNCHANGED <<conversations, user_profiles, memo, threads, heap>>

NextProfile == SaveAnyProfile \/ ReadProfile

SpecProfile == InitProfile /\ [][NextProfile]_vars

ProfileAttributes == {"name", "age", "weight", "height", "health_condition",
                      "dietary_preferences", "allergies", "target_calories",
                      "activity_level"}

\* the value of an attribute a body omits
OmittedAttribute(k) ==
    CASE k \in {"name", "age", "weight", "height"} -> None
      [] k = "health_condition" -> "khoe manh"
      [] k \in {"dietary_preferences", "allergies"} -> <<>>
      [] k = "target_calories" -> "2000"
      [] k = "activity_level" -> "vua phai"

\* the profile a body alone determines
FromBodyAlone(data) ==
    [k \in ProfileAttributes |-> IF k \in DOMAIN data THEN data[k] ELSE OmittedAttribute(k)]

SavedId == Get(op'.data, "user_id", FreshUser)

\* C19: after a profile save for user id U the stored profile of U is
\* determined by the request's body alone: an attribute the body omits has
\* its fixed default (or null), never the value stored before; a read of U
\* returns exactly this profile; the profiles of other ids are unchanged. A
\* read returns what is stored and changes nothing.
C19_SaveOverwritesWholesale ==
    [][/\ SaveAnyProfile =>
            /\ ret'.status = 200 /\ ret'.body.user_id = SavedId
            /\ DOMAIN user_profiles' = DOMAIN user_profiles \cup {SavedId}
            /\ user_profiles'[SavedId] = FromBodyAlone(op'.data)
            /\ get_user_profile(SavedId, user_profiles')
                  = [status |-> 200, body |-> FromBodyAlone(op'.data)]
            /\ \A u \in DOMAIN user_profiles \ {SavedId} :
                  user_profiles'[u] = user_profiles[u]
       /\ ReadProfile =>
            /\ user_profiles' = user_profiles
            /\ op'.user_id \in DOMAIN user_profiles =>
                  ret' = [status |-> 200, body |-> user_profiles[op'.user_id]]
            /\ op'.user_id \notin DOMAIN user_profiles => ret'.status = 404]_vars

C19_Witness ==
    /\ op.kind = "save_user_profile"
    /\ op.data = [user_id |-> "u1", target_calories |-> "1500"]
    /\ user_profiles["u1"].health_condition = "khoe manh"
    /\ user_profiles["u1"].target_calories = "1500"
    /\ user_profiles["u1"].name = None
    /\ "u9" \in DOMAIN user_profiles
    /\ user_profiles["u9"].health_condition = "tieu duong"

RequestUser == Get(op.data, "user_id", None)
ProfileMatched == RequestUser \notin {None, ""} /\ RequestUser \in DOMAIN user_profiles
Suggested == Get(Decided, "suggested_params", EmptyDict)
OverlayKeys == {"health_condition", "target_calories"}
ImageKeys == {"image", "images"}

IsExecution(c) == "executed" \in DOMAIN c
Executions == SelectSeq(calls, IsExecution)

\* C20: in /api/agent a matched profile adds at most health_condition and
\* target_calories to the parameter bag, with the profile's values and only
\* where the classifier suggested none; every suggested parameter is passed
\* as suggested; no other profile attribute reaches the capability; with
\* an absent or unknown user_id nothing is overlaid and the operation gets
\* the registry default of every optional parameter not suggested.
C20_OverlayTwoKeysOnly ==
    (Answered /\ IsDict(Decided) /\ IsDict(Suggested)) =>
        /\ \A i \in DOMAIN Executions :
              LET bag == Executions[i].params
                  added == DOMAIN bag \ DOMAIN Suggested
              IN  /\ DOMAIN Suggested \subseteq DOMAIN bag
                  /\ added \subseteq OverlayKeys \cup ImageKeys
                  /\ \A k \in DOMAIN Suggested \ ImageKeys : bag[k] = Suggested[k]
                  /\ \A k \in added \cap ImageKeys : RequestImages # <<>>
                  /\ ProfileMatched =>
                        \A k \in added \cap OverlayKeys :
                            bag[k] = user_profiles[RequestUser][k]
                  /\ ~ProfileMatched => added \cap OverlayKeys = {}
        /\ \A i \in DOMAIN Invocations :
              LET entry == Registry(Invocations[i].operation)
                  args == Invocations[i].args
              IN  /\ DOMAIN args = entry.properties
                  /\ \A k \in entry.properties \ ImageKeys :
                        /\ k \in DOMAIN Suggested => args[k] = Suggested[k]
                        /\ (k \notin DOMAIN Suggested /\ ProfileMatched /\ k \in OverlayKeys)
                              => args[k] = user_profiles[RequestUser][k]
                        /\ (k \notin DOMAIN Suggested
                            /\ ~(ProfileMatched /\ k \in OverlayKeys))
                              => args[k] = entry.default[k]

\* a profile with name, health condition and calorie target; the
\* classifier suggested a health condition of its own
C20_Witness ==
    /\ Answered /\ AutoExecuting /\ ProfileMatched
    /\ IsDict(Decided) /\ Decided = AnalyzeDecision
    /\ user_profiles[RequestUser].name = "An"
    /\ user_profiles[RequestUser].health_condition = "tieu duong"
    /\ Len(Executions) = 1
    /\ Executions[1].params = [health_condition |-> "gout", target_calories |-> "1500",
                               image |-> ImgA]
    /\ Len(Invocations) = 1
    /\ Invocations[1].args.health_condition = "gout"

(***************************************************************************)
(* Image analysis: internal_analyze_food behind /api/analyze-food          *)
(***************************************************************************)
\* the labels recognition returns for the image of the request
AnalyzedLabels == recognize_food_with_clarifai(op.image, EnvOf(op).clarifai).list

\* C22: for image analysis, when recognition returns at least one label the
\* generation adapter is asked once, after recognition, and the result that
\* comes back holds the recognized labels and the generated analysis (the
\* operation raises when generation fails); when recognition returns no
\* label the result is an error value and generation is not called.
C22_AnalysisNeedsLabels ==
    (op.kind = "analyze_food" /\ ret # Pending) =>
        /\ AnalyzedLabels # <<>> =>
              /\ Len(calls) = 2
              /\ calls[1] = RecognizeCall(op.image)
              /\ calls[2].adapter = "call_openai_vision"
              /\ calls[2].args.food_list = AnalyzedLabels
              /\ ret.status = (IF op.openai = OpenAIText THEN 200 ELSE 500)
              /\ ret.status = 200 =>
                    /\ ret.body.detected_foods = AnalyzedLabels
                    /\ ret.body.analysis = op.openai.content
        /\ AnalyzedLabels = <<>> =>
              /\ ret.status = 400
              /\ DOMAIN ret.body = {"error"}
              /\ calls = <<RecognizeCall(op.image)>>

C22_Witness ==
    /\ op.kind = "analyze_food" /\ ret # Pending
    /\ op.image = ImgAPrefixed
    /\ Len(AnalyzedLabels) = 1
    /\ ret.status = 200
    /\ ret.body.detected_foods = AnalyzedLabels
    /\ ret.body.analysis = "generated text"

\* nothing above the threshold: an error value, no generation call
C22_WitnessNoLabel ==
    /\ op.kind = "analyze_food" /\ ret # Pending
    /\ op.image = ImgA
    /\ op.response \notin ServiceFailures
    /\ AnalyzedLabels = <<>>
    /\ ret.status = 400
    /\ Len(calls) = 1

\* C23: in a /api/agent response the executed flag is true only if
\* execute_function was invoked for the request; it is false when the
\* request disabled execution (auto_execute false) and when execution was
\* withheld because information is missing.
C23_ExecutedFlagTellsExecution ==
    (Answered /\ ret.status = 200) =>
        /\ ret.body.executed => Executions # <<>>
        /\ ~Get(op.data, "auto_execute", TRUE) => ~ret.body.executed
        /\ MissingInfo # <<>> => ~ret.body.executed

(***************************************************************************)
(* /api/agent/suggest: agent_suggest_only (src/AI.py:811-849) and          *)
(* /api/agent/multi-step: agent_multi_step (src/AI.py:976-1056)            *)
(***************************************************************************)
\* the required list of the capability the decision names, none for a name
\* that is not registered (src/AI.py:828-830)
RequiredParams(intent) ==
    IF intent \in RegisteredNames THEN Registry(intent).required ELSE {}

\* intent_analysis["alternative_actions"][:3] that are registered
\* (src/AI.py:834-839)
RegisteredAlternatives(intent_analysis) ==
    LET alts == Get(intent_analysis, "alternative_actions", <<>>)
        first == SubSeq(alts, 1, IF Len(alts) > 3 THEN 3 ELSE Len(alts))
    IN  SelectSeq(first, LAMBDA a : a \in RegisteredNames)

\* src/AI.py:821-849, once the decision is known
SuggestRespond(intent_analysis, convs, asked) ==
    IF ~IsDict(intent_analysis) THEN AgentFailed("TypeError", convs, asked)
    ELSE IF ~({"explanation", "intent", "confidence"} \subseteq DOMAIN intent_analysis)
    THEN AgentFailed("KeyError", convs, asked)
    ELSE IF /\ RequiredParams(intent_analysis.intent) # {}
            /\ "suggested_params" \notin DOMAIN intent_analysis
    THEN AgentFailed("KeyError", convs, asked)
    ELSE IF /\ RequiredParams(intent_analysis.intent) # {}
            /\ ~IsDict(intent_analysis.suggested_params)
    THEN AgentFailed("TypeError", convs, asked)
    ELSE [response |->
             [status |-> 200,
              body |-> [success |-> TRUE,
                        intent_analysis |-> intent_analysis,
                        message |->
                            [explanation |-> intent_analysis.explanation,
                             intent |-> intent_analysis.intent,
                             confidence |-> intent_analysis.confidence,
                             steps |-> {[param |-> param,
                                         present |-> param \in DOMAIN
                                             intent_analysis.suggested_params] :
                                        param \in RequiredParams(intent_analysis.intent)},
                             alternatives |-> RegisteredAlternatives(intent_analysis)],
                        can_execute |->
                            Len(Get(intent_analysis, "missing_info", <<>>)) = 0]],
          conversations |-> convs,
          calls |-> asked]

\* a variant that opens the session and records the question as /api/agent does
agent_suggest_only_recording(data, env, convs) ==
    IF ~IsDict(data)
    THEN [response |-> ServerError("AttributeError"), conversations |-> convs,
          calls |-> <<>>]
    ELSE
    LET message == Strip(Get(data, "message", ""))
        images == Get(data, "images", <<>>)
        session_id == Get(data, "session_id", "uuid-1")
        created == IF session_id \in DOMAIN convs THEN convs
                   ELSE Put(convs, session_id, <<>>)
    IN  SuggestRespond(analyze_user_intent(env.intent).decision,
                       Append2(created, session_id,
                               [role |-> "user", content |-> message,
                                has_images |-> Len(images) > 0]),
                       <<ClassifierCall(message, images, created[session_id])>>)

\* src/AI.py:811-849
agent_suggest_only(data, env, convs) ==
    IF ~IsDict(data)
    THEN [response |-> ServerError("AttributeError"), conversations |-> convs,
          calls |-> <<>>]
    ELSE
    LET message == Strip(Get(data, "message", ""))
        images == Get(data, "images", <<>>)
        session_id == Get(data, "session_id", None)
        conversation_history ==
            IF session_id \notin {None, ""} THEN Get(convs, session_id, <<>>)
            ELSE <<>>
    IN  SuggestRespond(analyze_user_intent(env.intent).decision, convs,
                       <<ClassifierCall(message, images, conversation_history)>>)

\* user_preferences.get on a value that is no mapping
NoPreferences == [raised |-> TRUE, message |-> "AttributeError", calls |-> <<>>]

Step(action, outcome) == [action |-> action, outcome |-> outcome]

\* a variant of the planning workflow that plans the week before the recipes
WorkflowStepsMenuFirst(workflow_name, images, user_preferences, env) ==
    IF workflow_name = "meal_planning" /\ IsDict(user_preferences)
    THEN <<Step("meal_suggestion",
                internal_meal_suggestion(
                    Get(user_preferences, "meal_time", "trua"),
                    Get(user_preferences, "health_condition", "khoe manh"),
                    Get(user_preferences, "dietary_preferences", "khong"),
                    Get(user_preferences, "budget_range", "100k"),
                    "30 phut", env)),
           Step("weekly_menu",
                internal_weekly_menu(
                    Get(user_preferences, "health_condition", "khoe manh"),
                    Get(user_preferences, "dietary_preferences", "khong"),
                    Get(user_preferences, "budget_range", "500k"),
                    "45 phut", env)),
           Step("detailed_recipes",
                internal_detailed_recipes(
                    "3",
                    Get(user_preferences, "health_condition", "khoe manh"),
                    Get(user_preferences, "dietary_preferences", "khong"),
                    Get(user_preferences, "budget_range", "500k"), env))>>
    ELSE <<>>

\* the steps of the workflow the request names, each with what its
\* operation does (src/AI.py:984-1045); no step for another name or for a
\* workflow on images without an image
WorkflowSteps(workflow_name, images, user_preferences, env) ==
    IF workflow_name = "complete_analysis" /\ images # <<>>
    THEN <<Step("quick_scan", internal_quick_scan(images[1], env)),
           Step("analyze_food",
                IF ~IsDict(user_preferences) THEN NoPreferences
                ELSE internal_analyze_food(
                         images[1],
                         Get(user_preferences, "health_condition", "khoe manh"),
                         Get(user_preferences, "dietary_goals", "duy tri can nang"),
                         env)),
           Step("meal_suggestion",
                IF ~IsDict(user_preferences) THEN NoPreferences
                ELSE internal_meal_suggestion(
                         "trua",
                         Get(user_preferences, "health_condition", "khoe manh"),
                         "tuong tu mon vua phan tich",
                         Get(user_preferences, "budget_range", "100k"),
                         "30 phut", env))>>
    ELSE IF workflow_name = "daily_tracking" /\ images # <<>>
    THEN <<Step("track_calories",
                IF ~IsDict(user_preferences) THEN NoPreferences
                ELSE internal_track_calories(
                         images,
                         Get(user_preferences, "target_calories", "2000"),
                         Get(user_preferences, "health_condition", "khoe manh"),
                         env)),
           Step("meal_suggestion",
                IF ~IsDict(user_preferences) THEN NoPreferences
                ELSE internal_meal_suggestion(
                         "toi",
                         Get(user_preferences, "health_condition", "khoe manh"),
                         "can bang voi cac bua da an",
                         Get(user_preferences, "budget_range", "100k"),
                         "30 phut", env))>>
    ELSE IF workflow_name = "meal_planning"
    THEN <<Step("meal_suggestion",
                IF ~IsDict(user_preferences) THEN NoPreferences
                ELSE internal_meal_suggestion(
                         Get(user_preferences, "meal_time", "trua"),
                         Get(user_preferences, "health_condition", "khoe manh"),
                         Get(user_preferences, "dietary_preferences", "khong"),
                         Get(user_preferences, "budget_range", "100k"),
                         "30 phut", env)),
           Step("detailed_recipes",
                IF ~IsDict(user_preferences) THEN NoPreferences
                ELSE internal_detailed_recipes(
                         "3",
                         Get(user_preferences, "health_condition", "khoe manh"),
                         Get(user_preferences, "dietary_preferences", "khong"),
                         Get(user_preferences, "budget_range", "500k"), env)),
           Step("weekly_menu",
                IF ~IsDict(user_preferences) THEN NoPreferences
                ELSE internal_weekly_menu(
                         Get(user_preferences, "health_condition", "khoe manh"),
                         Get(user_preferences, "dietary_preferences", "khong"),
                         Get(user_preferences, "budget_range", "500k"),
                         "45 phut", env))>>
    ELSE <<>>

\* the first step that raises, 0 when none does
FirstRaising(steps) ==
    IF \E i \in DOMAIN steps : steps[i].outcome.raised
    THEN CHOOSE i \in DOMAIN steps :
             /\ steps[i].outcome.raised
             /\ \A j \in 1..(i - 1) : ~steps[j].outcome.raised
    ELSE 0

\* the adapter calls of the first n steps, in order
StepCalls(steps, n) == Flatten([i \in 1..n |-> steps[i].outcome.calls])

\* results.append({"step": i, "action": ..., "result": ...}) for the first n
StepResults(steps, n) ==
    [i \in 1..n |-> [step |-> i, action |-> steps[i].action,
                     result |-> steps[i].outcome.value]]

\* src/AI.py:1047-1053
WorkflowDone(workflow_name, results) ==
    [status |-> 200,
     body |-> [success |-> TRUE,
               workflow |-> workflow_name,
               total_steps |-> Len(results),
               results |-> results,
               summary |-> [completed |-> Len(results), workflow |-> workflow_name]]]

\* a variant that answers with the results gathered before a step raised
RunWorkflowKeepingPartial(workflow_name, steps) ==
    IF FirstRaising(steps) = 0
    THEN [response |-> WorkflowDone(workflow_name, StepResults(steps, Len(steps))),
          calls |-> StepCalls(steps, Len(steps))]
    ELSE [response |-> WorkflowDone(workflow_name,
                                    StepResults(steps, FirstRaising(steps) - 1)),
          calls |-> StepCalls(steps, FirstRaising(steps))]

\* the steps run in order until one raises: the except clause then answers
\* (src/AI.py:1055-1056) and the results gathered so far are dropped
RunWorkflow(workflow_name, steps) ==
    IF FirstRaising(steps) = 0
    THEN [response |-> WorkflowDone(workflow_name, StepResults(steps, Len(steps))),
          calls |-> StepCalls(steps, Len(steps))]
    ELSE [response |-> ServerError(steps[FirstRaising(steps)].outcome.message),
          calls |-> StepCalls(steps, FirstRaising(steps))]

\* src/AI.py:976-1056
agent_multi_step(data, env) ==
    IF ~IsDict(data)
    THEN [response |-> ServerError("AttributeError"), calls |-> <<>>]
    ELSE RunWorkflow(Get(data, "workflow", "complete_analysis"),
                     WorkflowSteps(Get(data, "workflow", "complete_analysis"),
                                   Get(data, "images", <<>>),
                                   Get(data, "user_preferences", EmptyDict), env))

(***************************************************************************)
(* SpecEndpoints: one request to /api/agent, /api/chat, /api/agent/suggest *)
(* or /api/agent/multi-step, drawn by Init together with the session store *)
(* it finds and the behaviour of the services.                             *)
(***************************************************************************)
\* bodies over the keys, and the same with an empty message
BodiesOver(keys) ==
    Bags(keys \cup {"message"})
    \cup {Put(b, "message", "") : b \in Bags(keys)}

\* generation answers or raises, template by template
GenerationEnvs ==
    {[t \in Templates |-> IF t \in failing THEN OpenAIRaises ELSE OpenAIText] :
        failing \in SUBSET {"analyze_food", "track_calories", "meal_suggestion",
                            "weekly_menu"}}

Workflows == {"complete_analysis", "daily_tracking", "meal_planning", "fasting"}

\* the bodies, and each of them with one of the values under the key
WithKey(bodies, key, values) ==
    bodies \cup {Put(b, key, v) : b \in bodies, v \in values}

WorkflowBodies ==
    WithKey(WithKey(WithKey({EmptyDict}, "workflow", Workflows),
                    "images", {<<>>, <<ImgA>>, <<ImgA, ImgB>>}),
            "user_preferences",
            {[health_condition |-> "tieu duong", budget_range |-> "50k"], NotADict})

EndpointOps ==
    [kind : {"ai_agent"},
     data : BodiesOver({"images", "session_id", "auto_execute"}),
     fresh : {"uuid-1"},
     intent : AgentIntentResponses,
     clarifai : {Everywhere(PhoRecognized)},
     openai : {Always(OpenAIText), Always(OpenAIRaises)}]
    \cup
    [kind : {"chat"},
     data : BodiesOver({"images", "session_id", "use_agent"}),
     fresh : {"uuid-1"},
     intent : {[raises |-> TRUE, content |-> NoneText],
               [raises |-> FALSE, content |-> <<Json(MealDecision)>>]},
     clarifai : {Everywhere(PhoRecognized)},
     openai : {Always(OpenAIText), Always(OpenAIRaises), Always(OpenAINoContent)}]
    \cup
    [kind : {"agent_suggest_only"},
     data : BodiesOver({"images", "session_id"}),
     fresh : {"uuid-1"},
     intent : AgentIntentResponses,
     clarifai : {Everywhere(PhoRecognized)},
     openai : {Always(OpenAIText)}]
    \cup
    [kind : {"agent_multi_step"},
     data : WorkflowBodies \cup {NotADict},
     fresh : {"uuid-1"},
     intent : {[raises |-> TRUE, content |-> NoneText]},
     clarifai : {Everywhere(TransportError), Everywhere(NothingRecognized),
                 Everywhere(PhoRecognized)},
     openai : GenerationEnvs]

EndpointEnv(o) == [clarifai |-> o.clarifai, openai |-> o.openai, intent |-> o.intent]

InitEndpoints ==
    /\ conversations \in StoredConversations
    /\ user_profiles = EmptyDict
    /\ op \in EndpointOps
    /\ ret = Pending
    /\ calls = <<>>
    /\ memo = NoMemo
    /\ threads = <<>>
    /\ heap = <<>>

AgentEndpoint ==
    /\ ret = Pending
    /\ op.kind = "ai_agent"
    /\ LET done == ai_agent(op.data, op.fresh, EndpointEnv(op), conversations,
                            user_profiles)
       IN  /\ ret' = done.response
           /\ conversations' = done.conversations
           /\ calls' = done.calls
    /\ UNCHANGED <<user_profiles, op, memo, threads, heap>>

ChatEndpoint ==
    /\ ret = Pending
    /\ op.kind = "chat"
    /\ LET done == chat(op.data, op.fresh, EndpointEnv(op), conversations,
                        user_profiles)
       IN  /\ ret' = done.response
           /\ conversations' = done.conversations
           /\ calls' = done.calls
    /\ UNCHANGED <<user_profiles, op, memo, threads, heap>>

Suggest ==
    /\ ret = Pending
    /\ op.kind = "agent_suggest_only"
    /\ LET done == agent_suggest_only(op.data, EndpointEnv(op), conversations)
       IN  /\ ret' = done.response
           /\ conversations' = done.conversations
           /\ calls' = done.calls
    /\ UNCHANGED <<user_profiles, op, memo, threads, heap>>

MultiStep ==
    /\ ret = Pending
    /\ op.kind = "agent_multi_step"
    /\ LET done == agent_multi_step(op.data, EndpointEnv(op))
       IN  /\ ret' = done.response
           /\ calls' = done.calls
    /\ UNCHANGED <<conversations, user_profiles, op, memo, threads, heap>>

NextEndpoints == AgentEndpoint \/ ChatEndpoint \/ Suggest \/ MultiStep

SpecEndpoints == InitEndpoints /\ [][NextEndpoints]_vars

\* C21: a /api/agent or /api/chat request whose message is absent, empty or
\* only whitespace is answered with status 400 and an error body, whatever
\* images and flags it carries; no classifier, capability or generation
\* call is made and the session store stays as it was.
C21_EmptyMessageRejected ==
    [][((AgentEndpoint \/ ChatEndpoint) /\ IsDict(op.data)
         /\ Get(op.data, "message", "") \in {"", "   "}) =>
            /\ ret'.status = 400
            /\ DOMAIN ret'.body = {"error"}
            /\ calls' = <<>>
            /\ conversations' = conversations]_vars

C21_Witness ==
    /\ op.kind = "chat" /\ ret # Pending
    /\ op.data = [message |-> "   ", images |-> <<ImgA, ImgB>>, use_agent |-> TRUE]
    /\ ret.status = 400
    /\ calls = <<>>

C21_WitnessAgent ==
    /\ op.kind = "ai_agent" /\ ret # Pending
    /\ op.data = [message |-> "", images |-> <<ImgA>>, session_id |-> "s1"]
    /\ ret.status = 400
    /\ calls = <<>>

(***************************************************************************)
(* Properties of /api/agent/suggest                                        *)
(***************************************************************************)
SuggestAnswered == op.kind = "agent_suggest_only" /\ ret # Pending

\* C24: in a /api/agent/suggest response can_execute is true only if
\* missing_info is empty and every parameter the registry marks as required
\* for the suggested capability is among the suggested parameters.
C24_CanExecuteNeedsRequired ==
    (SuggestAnswered /\ ret.status = 200 /\ ret.body.can_execute) =>
        /\ Get(ret.body.intent_analysis, "missing_info", <<>>) = <<>>
        /\ \A param \in RequiredParams(ret.body.intent_analysis.intent) :
              param \in DOMAIN Get(ret.body.intent_analysis, "suggested_params",
                                   EmptyDict)

\* C25: a /api/agent/suggest request calls the classifier at most once and
\* nothing else (no execute_function, no capability operation, no
\* recognition or generation call), and it leaves the session store and the
\* profile store as they were: the named session is not created and no
\* turn is appended, whatever the response.
C25_SuggestOnlySuggests ==
    [][Suggest =>
         /\ conversations' = conversations
         /\ user_profiles' = user_profiles
         /\ Len(calls') <= 1
         /\ \A i \in DOMAIN calls' :
               /\ IsAdapterCall(calls'[i])
               /\ calls'[i].adapter = "analyze_user_intent"
         /\ (IsDict(op.data) /\ FullDecision) =>
               /\ ret'.status = 200
               /\ ret'.body.intent_analysis = Decided
               /\ Len(calls') = 1]_vars

\* a suggestion for a session that does not exist, with an image: the
\* classifier chose analyze_food and nothing is missing
C25_Witness ==
    /\ SuggestAnswered
    /\ op.data = [message |-> "an gi bua trua", images |-> <<ImgA>>,
                  session_id |-> "s1"]
    /\ conversations = EmptyDict
    /\ ret.status = 200
    /\ ret.body.intent_analysis.intent = "analyze_food"
    /\ ret.body.can_execute
    /\ Len(calls) = 1

(***************************************************************************)
(* Properties of /api/agent/multi-step                                     *)
(***************************************************************************)
MultiAnswered == op.kind = "agent_multi_step" /\ ret # Pending /\ IsDict(op.data)

WorkflowName == Get(op.data, "workflow", "complete_analysis")
WorkflowImages == Get(op.data, "images", <<>>)

\* the documented steps of each workflow (src/AI.py:862-876)
Documented(workflow_name) ==
    CASE workflow_name = "complete_analysis" ->
            <<"quick_scan", "analyze_food", "meal_suggestion">>
      [] workflow_name = "daily_tracking" -> <<"track_calories", "meal_suggestion">>
      [] workflow_name = "meal_planning" ->
            <<"meal_suggestion", "detailed_recipes", "weekly_menu">>
      [] OTHER -> <<>>

NeedsImages(workflow_name) == workflow_name \in {"complete_analysis", "daily_tracking"}

\* the request names a documented workflow and carries the images it needs
Runnable ==
    /\ Documented(WorkflowName) # <<>>
    /\ NeedsImages(WorkflowName) => WorkflowImages # <<>>

IsGeneration(c) ==
    IsAdapterCall(c) /\ c.adapter \in {"call_openai_vision", "call_openai_text"}

\* the prompts sent to the generation service, in order
Generated == [i \in DOMAIN SelectSeq(calls, IsGeneration) |->
                 SelectSeq(calls, IsGeneration)[i].template]

\* the documented steps that ask the generation service: all but the scan,
\* and the analysis only when a dish was recognized
IsPrompting(action) ==
    /\ action # "quick_scan"
    /\ action = "analyze_food" => op.clarifai = Everywhere(PhoRecognized)
Prompting == SelectSeq(Documented(WorkflowName), IsPrompting)

IsPrefix(s, t) == Len(s) <= Len(t) /\ s = SubSeq(t, 1, Len(s))

\* C26: a multi-step workflow runs its steps in the documented order. In a
\* 200 response the i-th result has step number i, and total_steps is the
\* number of results; for a runnable workflow the results are the
\* documented steps, and the generation service is asked in that order
\* (up to the step that raised, when one did).
C26_WorkflowOrder ==
    MultiAnswered =>
        /\ ret.status = 200 =>
              /\ ret.body.total_steps = Len(ret.body.results)
              /\ \A i \in DOMAIN ret.body.results : ret.body.results[i].step = i
        /\ (Runnable /\ ret.status = 200) =>
              /\ [i \in DOMAIN ret.body.results |-> ret.body.results[i].action]
                    = Documented(WorkflowName)
              /\ Generated = Prompting
        /\ Runnable => IsPrefix(Generated, Prompting)

C26_Witness ==
    /\ MultiAnswered
    /\ WorkflowName = "meal_planning"
    /\ ret.status = 200
    /\ ret.body.total_steps = 3
    /\ ret.body.results[2].action = "detailed_recipes"
    /\ ret.body.results[3].action = "weekly_menu"
    /\ Generated = <<"meal_suggestion", "detailed_recipes", "weekly_menu">>

\* the image workflows, each with its steps in order
C26_WitnessImages ==
    /\ MultiAnswered
    /\ "workflow" \notin DOMAIN op.data
    /\ WorkflowImages = <<ImgA, ImgB>>
    /\ ret.status = 200
    /\ Generated = <<"analyze_food", "meal_suggestion">>
    /\ ret.body.results[1].result.total = 1

\* C27: a multi-step request for complete_analysis or daily_tracking sent
\* without any image is answered with a 400 validation error.
C27_WorkflowWithoutImage ==
    (MultiAnswered /\ NeedsImages(WorkflowName) /\ WorkflowImages = <<>>) =>
        /\ ret.status = 400
        /\ "error" \in DOMAIN ret.body

\* C30: a runnable workflow either returns a result for each of its steps,
\* running the later steps also when an earlier one returned an error
\* value, or, when a step raises, answers 500 with an error and no step
\* results; total_steps is never strictly between 0 and the number of
\* steps, and a step raises exactly when its generation call fails or the
\* preferences are no mapping.
C30_AllOrNothing ==
    (MultiAnswered /\ Documented(WorkflowName) # <<>>) =>
        /\ ret.status = 200 =>
              ret.body.total_steps \in {0, Len(Documented(WorkflowName))}
        /\ Runnable =>
              /\ ret.status \in {200, 500}
              /\ ret.status = 200 =>
                    /\ ret.body.total_steps = Len(Documented(WorkflowName))
                    /\ Len(ret.body.results) = Len(Documented(WorkflowName))
              /\ ret.status = 500 => DOMAIN ret.body = {"error"}
              /\ ret.status = 500 <=>
                    \/ ~IsDict(Get(op.data, "user_preferences", EmptyDict))
                    \/ \E i \in DOMAIN Prompting :
                           op.openai[Prompting[i]] = OpenAIRaises

\* nothing is recognized: the scan and the analysis return error values and
\* the suggestion still runs
C30_Witness ==
    /\ MultiAnswered
    /\ WorkflowName = "complete_analysis"
    /\ op.clarifai = Everywhere(NothingRecognized)
    /\ ret.status = 200
    /\ ret.body.total_steps = 3
    /\ DOMAIN ret.body.results[1].result = {"error"}
    /\ DOMAIN ret.body.results[2].result = {"error"}
    /\ "suggestion" \in DOMAIN ret.body.results[3].result

\* the last step raises after two steps gave their results
C30_WitnessRaise ==
    /\ MultiAnswered
    /\ WorkflowName = "meal_planning"
    /\ Generated = <<"meal_suggestion", "detailed_recipes", "weekly_menu">>
    /\ ret = ServerError("OpenAI API error")

(***************************************************************************)
(* Error responses and the session store                                   *)
(***************************************************************************)
\* C28: a /api/agent or /api/chat request that is answered with an error
\* (status 400 or 500) leaves the session store as it was: no session
\* entry is created and no turn is appended.
C28_ErrorLeavesSessions ==
    [][((AgentEndpoint \/ ChatEndpoint) /\ ret'.status \in {400, 500}) =>
          conversations' = conversations]_vars

(***************************************************************************)
(* SpecSessions: /api/chat and /api/agent requests handled one at a time,  *)
(* in any order, on a session store that starts empty, while the stored    *)
(* turns fit the bound.                                                    *)
(***************************************************************************)
SessionChatBodies ==
    {[message |-> "xin chao", session_id |-> "s1"],
     [message |-> "xin chao"],
     [message |-> "   ", session_id |-> "s1"]}

SessionAgentBodies ==
    {[message |-> "an gi bua trua", session_id |-> "s1"],
     [message |-> "an gi bua trua", session_id |-> "s1", auto_execute |-> FALSE],
     [message |-> "mon gi day", images |-> <<ImgA>>]}

\* the classifier fails, decides, or answers JSON that lacks fields
SessionEnvs ==
    {StepEnv(intent, openai) :
        intent \in {[raises |-> TRUE, content |-> NoneText],
                    [raises |-> FALSE, content |-> <<Json(MealDecision)>>],
                    [raises |-> FALSE, content |-> <<Json(NoIntentDecision)>>]},
        openai \in {OpenAIText, OpenAIRaises}}

\* the store has room for the session and the two turns of one more request
SessionRoom(data) ==
    /\ TotalTurns(conversations) + 2 <= MaxSessionTurns
    /\ "session_id" \in DOMAIN data \/ FreshSession \notin DOMAIN conversations

InitSessions ==
    /\ conversations = EmptyDict
    /\ user_profiles = EmptyDict
    /\ op = [kind |-> "none"]
    /\ ret = Pending
    /\ calls = <<>>
    /\ memo = NoMemo
    /\ threads = <<>>
    /\ heap = <<>>

ChatTurn ==
    \E data \in SessionChatBodies, env \in SessionEnvs :
        /\ SessionRoom(data)
        /\ LET done == chat(data, FreshSession, env, conversations, user_profiles)
           IN  /\ op' = [kind |-> "chat", data |-> data, env |-> env]
               /\ ret' = done.response
               /\ conversations' = done.conversations
               /\ calls' = done.calls
        /\ UNCHANGED <<user_profiles, memo, threads, heap>>

AgentTurn ==
    \E data \in SessionAgentBodies, env \in SessionEnvs :
        /\ SessionRoom(data)
        /\ LET done == ai_agent(data, FreshSession, env, conversations, user_profiles)
           IN  /\ op' = [kind |-> "ai_agent", data |-> data, env |-> env]
               /\ ret' = done.response
               /\ conversations' = done.conversations
               /\ calls' = done.calls
        /\ UNCHANGED <<user_profiles, memo, threads, heap>>

NextSessions == ChatTurn \/ AgentTurn

SpecSessions == InitSessions /\ [][NextSessions]_vars

\* C29: with requests handled one at a time, after any sequence of
\* /api/chat and /api/agent requests every session's list of turns has
\* even length and alternates user, assistant, starting with a user turn.
C29_TurnsAlternate ==
    \A s \in DOMAIN conversations :
        /\ Len(conversations[s]) % 2 = 0
        /\ \A i \in DOMAIN conversations[s] :
              conversations[s][i].role = (IF i % 2 = 1 THEN "user" ELSE "assistant")

====
